---- MODULE Spec2Model ----
(***************************************************************************)
(* Knowledge-graph construction (GraphBuilder), graph reasoning            *)
(* (GraphReasoner), the agent workflows (AgentOrchestrator) and paper      *)
(* retrieval (DataRetrieval) of sci-hypothesis-gen.                        *)
(*                                                                         *)
(* JavaScript numbers are modelled as exact rationals <<n, d>> in lowest   *)
(* terms, with <<1, 0>> for +Infinity and <<0, 0>> for NaN.                *)
(***************************************************************************)
EXTENDS Integers, Sequences, FiniteSets, TLC

VARIABLES
    graph,          \* GraphReasoner.graph: [nodes, edges, weight]
    communities,    \* GraphReasoner.communities: Undefined or [node -> community id]
    centrality,     \* GraphReasoner.centrality: Undefined or [node -> number]
    call,           \* arguments of the findPaths call in progress or last finished
    pc,             \* position of findPaths: "idle", "sampling", "returned", "threw"
    attempts,       \* sampleDiversePaths: attempts
    visitedPaths,   \* sampleDiversePaths: visitedPaths (set of path keys)
    paths,          \* sampleDiversePaths: paths collected so far, in discovery order
    result,         \* value returned by the last findPaths call
    papers,         \* GraphBuilder.papers: ids of the stored papers, insertion order
    extractInput,   \* argument of the last extractConcepts call
    concepts,       \* concept map returned by the last extractConcepts call
    relInput,       \* concept map given to the last buildRelationships call
    edges,          \* edges returned by the last buildRelationships call
    op,             \* the operation that produced the current state
    query,          \* arguments of the last query made to the reasoner
    answer,         \* what that query returned
    previous,       \* the findPaths run before the current one: its call and result
    agents,         \* AgentOrchestrator.agents: the roles that have an agent
    workflow,       \* position of the workflow in progress or last finished
    chatLog,        \* the chat calls made and the replies received, in order
    hypotheses,     \* the hypotheses compiled by the workflow
    mcpServer,      \* whether the Healthcare MCP server answers: "up" or "down"
    mcpAvailable,   \* DataRetrieval.mcpAvailable
    healthCheck,    \* initHealthcareMCP's healthCheck call: "pending" or "done"
    clients,        \* DataRetrieval.clients: the data sources that have a client
    search,         \* the search call in progress or last finished
    conversationHistory,  \* BaseAgent.conversationHistory: the roles of its messages
    inFlight,       \* messages.create requests of the agent that have not settled
    sent,           \* the messages of the agent's last messages.create request
    generation      \* the generateMultipleHypotheses call in progress or last finished

reasonerVars == <<graph, communities, centrality, call, pc, attempts, visitedPaths, paths, result>>
builderVars == <<papers, extractInput, concepts, relInput, edges>>
queryVars == <<query, answer>>
\* what findPaths and analyzeGraph leave alone, and what the builder leaves alone
orchestratorVars == <<agents, workflow, chatLog, hypotheses>>
retrievalVars == <<mcpServer, mcpAvailable, healthCheck, clients, search>>
baseAgentVars == <<conversationHistory, inFlight, sent>>
outsideGraph == <<orchestratorVars, retrievalVars, baseAgentVars, generation>>
outsideFindPaths == <<builderVars, queryVars, previous, outsideGraph>>
outsideBuilder == <<reasonerVars, queryVars, previous, outsideGraph>>
vars == <<reasonerVars, builderVars, op, queryVars, previous, orchestratorVars, retrievalVars,
          baseAgentVars, generation>>

(***************************************************************************)
(* Numbers                                                                 *)
(***************************************************************************)
Abs(x) == IF x < 0 THEN -x ELSE x

RECURSIVE GCD(_, _)
GCD(a, b) == IF b = 0 THEN a ELSE GCD(b, a % b)

Sign(x) == IF x > 0 THEN 1 ELSE IF x < 0 THEN -1 ELSE 0

\* the number n/d (d >= 0) in lowest terms; n/0 is +-Infinity, 0/0 is NaN
Num(n, d) ==
    IF d = 0 THEN <<Sign(n), 0>>
    ELSE LET g == GCD(Abs(n), d) IN <<n \div g, d \div g>>

NaN == <<0, 0>>
Zero == <<0, 1>>
One == <<1, 1>>
Int2Num(i) == <<i, 1>>

IsNaN(a) == a = NaN
IsFinite(a) == a[2] # 0

\* a < b, a <= b as JavaScript compares them (false when either is NaN)
Less(a, b) ==
    /\ ~IsNaN(a) /\ ~IsNaN(b)
    /\ IF a[2] = 0 /\ b[2] = 0 THEN a[1] < b[1] ELSE a[1] * b[2] < b[1] * a[2]
LessEq(a, b) == ~IsNaN(a) /\ ~IsNaN(b) /\ ~Less(b, a)

Plus(a, b) ==
    IF IsNaN(a) \/ IsNaN(b) THEN NaN
    ELSE IF a[2] = 0 /\ b[2] = 0 THEN (IF a[1] = b[1] THEN a ELSE NaN)
    ELSE IF a[2] = 0 THEN a
    ELSE IF b[2] = 0 THEN b
    ELSE Num(a[1] * b[2] + b[1] * a[2], a[2] * b[2])
Neg(a) == <<-a[1], a[2]>>
Minus(a, b) == Plus(a, Neg(b))
Times(a, b) == IF IsNaN(a) \/ IsNaN(b) THEN NaN ELSE Num(a[1] * b[1], a[2] * b[2])
\* a / b for b >= 0
Divide(a, b) == IF IsNaN(a) \/ IsNaN(b) THEN NaN ELSE Num(a[1] * b[2], a[2] * b[1])

\* Math.min, Math.max: NaN if either argument is NaN
MathMin(a, b) == IF IsNaN(a) \/ IsNaN(b) THEN NaN ELSE IF Less(b, a) THEN b ELSE a
MathMax(a, b) == IF IsNaN(a) \/ IsNaN(b) THEN NaN ELSE IF Less(a, b) THEN b ELSE a

RECURSIVE SumNums(_)
SumNums(s) == IF s = <<>> THEN Zero ELSE Plus(SumNums(SubSeq(s, 1, Len(s) - 1)), s[Len(s)])

(***************************************************************************)
(* Bounds and input sets of the reasoner                                   *)
(***************************************************************************)
MaxEdges == 2       \* graphs handed to the reasoner have at most MaxEdges edges
MaxLen == 2         \* largest params.pathLength passed to findPaths
DefaultPathLength == 4
DefaultMaxResults == 10
AttemptFactor == 10

NodeIds == {"c1", "c2", "c3"}
MissingId == "zz"                     \* an id that is no node of the graph
Pairs == {e \in NodeIds \X NodeIds : e[1] # e[2]}
PathLengths == 0..MaxLen              \* 0: pathLength absent (or 0)
TargetedResultCounts == {0, 1}        \* 0: maxResults absent (or 0)
DiverseResultCounts == {1, 2, 5}
Targets == NodeIds \cup {MissingId}
TargetedSources == NodeIds \cup {MissingId}
DiverseSources == {"c1", MissingId}   \* the graphs cover every shape around c1

\* the weight each possible edge carries when it is present
EdgeWeight(e) ==
    IF e[2] = "c1" THEN Num(1, 1)
    ELSE IF e[2] = "c2" THEN Num(1, 2)
    ELSE Num(1, 5)

Graphs ==
    {[nodes |-> NodeIds, weight |-> [e \in E |-> EdgeWeight(e)]] :
       E \in {F \in SUBSET Pairs : Cardinality(F) <= MaxEdges}}

\* outcomes of louvain(graph) and betweennessCentrality(graph): one value per node
\* (community ids are labels: only which nodes share one matters, so c1 gets 0)
CommunityMaps == {m \in [NodeIds -> {0, 1}] : m["c1"] = 0}
CentralityMaps == {[n \in NodeIds |-> IF n \in H THEN Num(1, 20) ELSE Zero] :
                     H \in {{}, {"c2"}}}

(***************************************************************************)
(* graphology                                                              *)
(***************************************************************************)
HasNode(g, n) == n \in g.nodes
HasEdge(g, u, v) == <<u, v>> \in DOMAIN g.weight
OutNeighbors(g, u) == {v \in g.nodes : HasEdge(g, u, v)}
GetEdgeAttributes(g, u, v) == [source |-> u, target |-> v, weight |-> g.weight[<<u, v>>]]

SeqSet(s) == {s[i] : i \in DOMAIN s}
Last(s) == s[Len(s)]

\* all directed paths without repeated node that extend p
RECURSIVE SimplePaths(_, _)
SimplePaths(g, p) ==
    {p} \cup UNION {SimplePaths(g, Append(p, n)) : n \in OutNeighbors(g, Last(p)) \ SeqSet(p)}

\* bidirectional(graph, source, target) of graphology-shortest-path: throws when an
\* end is no node of the graph; otherwise returns [source] when both ends are the same
\* node, a shortest directed path when one exists, and null (here Null) when none does
Null == <<>>
BidirectionalNoNull(g, source, target) ==
    IF source = target THEN {<<source>>}
    ELSE LET found == {p \in SimplePaths(g, <<source>>) : Last(p) = target}
         IN  IF found = {} THEN {<<source, target>>}
             ELSE {p \in found : \A q \in found : Len(p) <= Len(q)}
BidirectionalThrows(g, source, target) == ~HasNode(g, source) \/ ~HasNode(g, target)
Bidirectional(g, source, target) ==
    IF source = target THEN {<<source>>}
    ELSE LET found == {p \in SimplePaths(g, <<source>>) : Last(p) = target}
         IN  IF found = {} THEN {Null}
             ELSE {p \in found : \A q \in found : Len(p) <= Len(q)}

(***************************************************************************)
(* GraphReasoner                                                           *)
(***************************************************************************)
Undefined == [undefined |-> TRUE]

\* x || d for a numeric parameter: 0 stands for an absent or zero value
OrDefault(x, d) == IF x = 0 THEN d ELSE x

\* selectNextNode: the candidates one call can return. Math.random() is any number of
\* [0, 1): without community data every index is drawn; with it candidate i is returned
\* when the draw falls in its score interval, which is non-empty when its score is > 0
BaseScore(w) == IF IsNaN(w) \/ w = Zero THEN Num(1, 2) ELSE w
CandidateScore(g, comm, currentId, nodeId) ==
    Times(BaseScore(GetEdgeAttributes(g, currentId, nodeId).weight),
          IF comm[nodeId] # comm[currentId] THEN Int2Num(2) ELSE One)
SelectNextNode(g, comm, currentId, candidates) ==
    IF comm = Undefined THEN candidates
    ELSE {n \in candidates : Less(Zero, CandidateScore(g, comm, currentId, n))}

\* randomWalk: the node-id sequences the walk can return once it holds `path` and is
\* about to run iteration i of its loop
RECURSIVE WalkFromRevisiting(_, _, _, _, _)
WalkFromRevisiting(g, comm, path, i, maxLength) ==
    IF i >= maxLength - 1 THEN {path}
    ELSE LET neighbors == OutNeighbors(g, Last(path))
         IN  IF neighbors = {} THEN {path}
             ELSE UNION {WalkFromRevisiting(g, comm, Append(path, n), i + 1, maxLength) :
                           n \in SelectNextNode(g, comm, Last(path), neighbors)}
RECURSIVE WalkFrom(_, _, _, _, _)
WalkFrom(g, comm, path, i, maxLength) ==
    IF i >= maxLength - 1 THEN {path}
    ELSE LET unvisited == OutNeighbors(g, Last(path)) \ SeqSet(path)
         IN  IF unvisited = {} THEN {path}
             ELSE UNION {WalkFrom(g, comm, Append(path, n), i + 1, maxLength) :
                           n \in SelectNextNode(g, comm, Last(path), unvisited)}
RandomWalk(g, comm, startId, maxLength) == WalkFrom(g, comm, <<startId>>, 0, maxLength)
\* outNeighbors throws for an unknown node; the loop body runs only when maxLength >= 2
RandomWalkThrows(g, startId, maxLength) == maxLength >= 2 /\ ~HasNode(g, startId)

\* path.map(n => n).join('->')
RECURSIVE Join(_, _)
Join(s, sep) ==
    IF s = <<>> THEN ""
    ELSE IF Len(s) = 1 THEN s[1]
    ELSE Join(SubSeq(s, 1, Len(s) - 1), sep) \o sep \o s[Len(s)]
PathKey(path) == Join(path, "->")

\* if (visitedPaths.has(pathKey)) continue
SeenNever(visited, path) == FALSE
SeenBefore(visited, path) == PathKey(path) \in visited

\* constructGraphPath
ConstructThrows(g, nodeIds) ==
    \/ \E i \in DOMAIN nodeIds : ~HasNode(g, nodeIds[i])
    \/ \E i \in 1..(Len(nodeIds) - 1) : ~HasEdge(g, nodeIds[i], nodeIds[i + 1])
ConstructGraphPath(g, nodeIds) ==
    LET es == [i \in 1..(Len(nodeIds) - 1) |-> GetEdgeAttributes(g, nodeIds[i], nodeIds[i + 1])]
    IN  [nodes |-> nodeIds,
         edges |-> es,
         length |-> Len(nodeIds),
         totalWeight |-> SumNums([i \in DOMAIN es |-> es[i].weight]),
         novelty |-> Zero]

\* calculateNoveltyScore
CalculateNoveltyScoreZero(path, comm, cent) == Zero
\* a variant that scores the length by the number of edges
CalculateNoveltyScoreByEdges(path, comm, cent) ==
    IF comm = Undefined THEN Num(1, 2)
    ELSE
    LET n == Len(path.nodes)
        communityChanges ==
            Cardinality({i \in 1..(n - 1) : comm[path.nodes[i]] # comm[path.nodes[i + 1]]})
        crossCommunityScore == Divide(Int2Num(communityChanges), Int2Num(n - 1))
        avgWeight == Divide(path.totalWeight, Int2Num(Len(path.edges)))
        edgeNoveltyScore == Minus(One, MathMin(avgWeight, One))
        lengthScore == MathMin(Divide(Int2Num(Len(path.edges)), Int2Num(6)), One)
        avgCentrality ==
            IF cent # Undefined
            THEN Divide(SumNums([i \in 1..n |-> cent[path.nodes[i]]]), Int2Num(n))
            ELSE Num(1, 2)
        bridgeScore == Minus(One, MathMin(Times(avgCentrality, Int2Num(10)), One))
        score == Plus(Plus(Plus(Times(crossCommunityScore, Num(4, 10)),
                                Times(edgeNoveltyScore, Num(3, 10))),
                           Times(lengthScore, Num(2, 10))),
                      Times(bridgeScore, Num(1, 10)))
    IN  MathMin(MathMax(score, Zero), One)

CalculateNoveltyScore(path, comm, cent) ==
    IF comm = Undefined THEN Num(1, 2)
    ELSE
    LET n == Len(path.nodes)
        communityChanges ==
            Cardinality({i \in 1..(n - 1) : comm[path.nodes[i]] # comm[path.nodes[i + 1]]})
        crossCommunityScore == Divide(Int2Num(communityChanges), Int2Num(n - 1))
        avgWeight == Divide(path.totalWeight, Int2Num(Len(path.edges)))
        edgeNoveltyScore == Minus(One, MathMin(avgWeight, One))
        lengthScore == MathMin(Divide(Int2Num(path.length), Int2Num(6)), One)
        avgCentrality ==
            IF cent # Undefined
            THEN Divide(SumNums([i \in 1..n |-> cent[path.nodes[i]]]), Int2Num(n))
            ELSE Num(1, 2)
        bridgeScore == Minus(One, MathMin(Times(avgCentrality, Int2Num(10)), One))
        score == Plus(Plus(Plus(Times(crossCommunityScore, Num(4, 10)),
                                Times(edgeNoveltyScore, Num(3, 10))),
                           Times(lengthScore, Num(2, 10))),
                      Times(bridgeScore, Num(1, 10)))
    IN  MathMin(MathMax(score, Zero), One)

ScorePaths(ps, comm, cent) ==
    [i \in DOMAIN ps |-> [ps[i] EXCEPT !.novelty = CalculateNoveltyScore(ps[i], comm, cent)]]

\* paths.sort((a, b) => b.novelty - a.novelty): Array.prototype.sort is stable, and a
\* comparator result that is not < 0 or > 0 (0 or NaN) leaves two elements in order
ComesBefore(a, b) == Less(b.novelty, a.novelty)      \* comparator(a, b) < 0
InsertSortedUnstable(sorted, x) ==
    LET later == {i \in DOMAIN sorted : ~ComesBefore(sorted[i], x)}
        k == IF later = {} THEN Len(sorted) + 1
             ELSE CHOOSE i \in later : \A j \in later : i <= j
    IN  SubSeq(sorted, 1, k - 1) \o <<x>> \o SubSeq(sorted, k, Len(sorted))
InsertSorted(sorted, x) ==
    LET later == {i \in DOMAIN sorted : ComesBefore(x, sorted[i])}
        k == IF later = {} THEN Len(sorted) + 1
             ELSE CHOOSE i \in later : \A j \in later : i <= j
    IN  SubSeq(sorted, 1, k - 1) \o <<x>> \o SubSeq(sorted, k, Len(sorted))
RECURSIVE SortByNovelty(_)
SortByNovelty(ps) ==
    IF ps = <<>> THEN <<>>
    ELSE InsertSorted(SortByNovelty(SubSeq(ps, 1, Len(ps) - 1)), ps[Len(ps)])

\* slice(0, n) for n >= 0
Slice(s, n) == SubSeq(s, 1, IF n < Len(s) THEN n ELSE Len(s))

\* lines 81-89 of findPaths: score, sort, truncate
RankPaths(ps, comm, cent, maxResults) == Slice(SortByNovelty(ScorePaths(ps, comm, cent)), maxResults)

(***************************************************************************)
(* Operations of the reasoner                                              *)
(***************************************************************************)
NoCall == [sourceId |-> "", targetId |-> "", maxLength |-> 0, maxResults |-> 0]
NoTarget == ""                         \* targetId absent (or empty): falsy

NoQuery == [name |-> "", repeated |-> FALSE]
NoAnswer == [threw |-> FALSE, undefined |-> TRUE, number |-> 0, value |-> <<>>]
NoRun == [call |-> NoCall, result |-> <<>>, ran |-> FALSE]
\* no workflow has run: every role has an agent and nothing has been called
Roles == {"ontologist", "scientist_1", "scientist_2", "critic", "planner", "assistant"}
NoPath == 0
NoWorkflow == [mode |-> "", at |-> "idle", stage |-> "", pending |-> {}, error |-> "",
               graphPath |-> NoPath, graphPaths |-> <<>>, topPaths |-> <<>>, index |-> 0,
               checks |-> <<>>]
OrchestratorIdle ==
    agents = Roles /\ workflow = NoWorkflow /\ chatLog = <<>> /\ hypotheses = <<>>
\* no DataRetrieval has been constructed
NoSearch == [name |-> "", stage |-> "", used |-> {}, mcpFailed |-> FALSE, returned |-> ""]
RetrievalIdle ==
    /\ mcpServer = "down" /\ mcpAvailable = FALSE /\ healthCheck = "done"
    /\ clients = {} /\ search = NoSearch
\* new BaseAgent(config): the history holds the system prompt
BaseAgentNew == conversationHistory = <<"system">> /\ inFlight = 0 /\ sent = <<>>
\* generateMultipleHypotheses has not been called
NoGeneration == [count |-> 0, at |-> "idle", error |-> "", checked |-> 0, returned |-> <<>>]
GenerationIdle == generation = NoGeneration
QueriesIdle ==
    /\ query = NoQuery /\ answer = NoAnswer /\ previous = NoRun
    /\ OrchestratorIdle /\ RetrievalIdle /\ BaseAgentNew /\ GenerationIdle

BuilderIdle ==
    /\ papers = <<>> /\ extractInput = <<>> /\ concepts = <<>>
    /\ relInput = <<>> /\ edges = <<>>

\* new GraphReasoner(graph)
Init ==
    /\ graph \in Graphs
    /\ communities = Undefined /\ centrality = Undefined
    /\ call = NoCall /\ pc = "idle"
    /\ attempts = 0 /\ visitedPaths = {} /\ paths = <<>> /\ result = <<>>
    /\ BuilderIdle /\ QueriesIdle
    /\ op = "new"

\* analyzeGraph(): louvain and betweennessCentrality fill the two maps
AnalyzeGraph ==
    /\ pc # "sampling"
    /\ communities' \in CommunityMaps
    /\ centrality' \in CentralityMaps
    /\ call' = NoCall /\ pc' = "idle"
    /\ attempts' = 0 /\ visitedPaths' = {} /\ paths' = <<>> /\ result' = <<>>
    /\ op' = "analyzeGraph"
    /\ UNCHANGED <<graph, outsideFindPaths>>

\* findPaths(sourceId, targetId, params) with a target: the whole call
FindPathsTargeted(sourceId, targetId, pathLength, maxResults) ==
    /\ pc # "sampling"
    /\ call' = [sourceId |-> sourceId, targetId |-> targetId,
                maxLength |-> OrDefault(pathLength, DefaultPathLength),
                maxResults |-> OrDefault(maxResults, DefaultMaxResults)]
    /\ attempts' = 0 /\ visitedPaths' = {} /\ paths' = <<>>
    /\ IF BidirectionalThrows(graph, sourceId, targetId)
       THEN pc' = "threw" /\ result' = <<>>
       ELSE \E shortestPath \in Bidirectional(graph, sourceId, targetId) :
              IF shortestPath = Null
              THEN pc' = "returned" /\ result' = <<>>
              ELSE IF ConstructThrows(graph, shortestPath)
              THEN pc' = "threw" /\ result' = <<>>
              ELSE /\ pc' = "returned"
                   /\ result' = RankPaths(<<ConstructGraphPath(graph, shortestPath)>>,
                                          communities, centrality, call'.maxResults)
    /\ op' = "findPaths"
    /\ UNCHANGED <<graph, communities, centrality, outsideFindPaths>>

\* findPaths(sourceId, undefined, params): entry into sampleDiversePaths
FindPathsDiverse(sourceId, pathLength, maxResults) ==
    /\ pc # "sampling"
    /\ call' = [sourceId |-> sourceId, targetId |-> NoTarget,
                maxLength |-> OrDefault(pathLength, DefaultPathLength),
                maxResults |-> OrDefault(maxResults, DefaultMaxResults)]
    /\ attempts' = 0 /\ visitedPaths' = {} /\ paths' = <<>> /\ result' = <<>>
    /\ pc' = "sampling"
    /\ op' = "findPaths"
    /\ UNCHANGED <<graph, communities, centrality, outsideFindPaths>>

MaxAttempts == call.maxResults * AttemptFactor
SamplingUncapped == pc = "sampling" /\ Len(paths) < call.maxResults
Sampling == pc = "sampling" /\ Len(paths) < call.maxResults /\ attempts < MaxAttempts

\* one iteration of the loop of sampleDiversePaths
SampleAttempt ==
    /\ Sampling
    /\ attempts' = attempts + 1
    /\ IF RandomWalkThrows(graph, call.sourceId, call.maxLength)
       THEN pc' = "threw" /\ UNCHANGED <<visitedPaths, paths>>
       ELSE \E path \in RandomWalk(graph, communities, call.sourceId, call.maxLength) :
              IF SeenBefore(visitedPaths, path)
              THEN UNCHANGED <<pc, visitedPaths, paths>>
              ELSE /\ visitedPaths' = visitedPaths \cup {PathKey(path)}
                   /\ IF Len(path) < 2
                      THEN UNCHANGED <<pc, paths>>
                      ELSE IF ConstructThrows(graph, path)
                      THEN pc' = "threw" /\ UNCHANGED paths
                      ELSE pc' = pc /\ paths' = Append(paths, ConstructGraphPath(graph, path))
    /\ UNCHANGED <<graph, communities, centrality, call, result, outsideFindPaths, op>>

\* the loop has ended: findPaths scores, sorts and truncates what was sampled
SampleReturn ==
    /\ pc = "sampling" /\ ~Sampling
    /\ result' = RankPaths(paths, communities, centrality, call.maxResults)
    /\ pc' = "returned"
    /\ UNCHANGED <<graph, communities, centrality, call, attempts, visitedPaths, paths,
                   outsideFindPaths, op>>

Next ==
    \/ AnalyzeGraph
    \/ \E s \in TargetedSources, t \in Targets,
          pl \in {0, MaxLen}, mr \in TargetedResultCounts : FindPathsTargeted(s, t, pl, mr)
    \/ \E s \in DiverseSources, pl \in PathLengths, mr \in DiverseResultCounts :
          FindPathsDiverse(s, pl, mr)
    \/ SampleAttempt
    \/ SampleReturn

Spec == Init /\ [][Next]_vars

\* diverse sampling alone; findPaths is synchronous, so once entered its loop runs on
\* until it returns or throws
SamplingResultCounts == {1, 2}
NextSampling ==
    \/ AnalyzeGraph
    \/ \E s \in DiverseSources, pl \in PathLengths, mr \in SamplingResultCounts :
          FindPathsDiverse(s, pl, mr)
    \/ SampleAttempt
    \/ SampleReturn
\* The while loop of sampleDiversePaths and the return of findPaths run synchronously
\* to completion once findPaths is called, so neither step can be postponed for ever.
\* Under NextSampling the only step that raises attempts is SampleAttempt and the only
\* step that takes pc from "sampling" to "returned" is SampleReturn; fairness is stated
\* on these two effects.
Attempting == Sampling /\ attempts' = attempts + 1
Returning == pc = "sampling" /\ ~Sampling /\ pc' = "returned"
SpecSampling ==
    Init /\ [][NextSampling]_vars /\ WF_attempts(Attempting) /\ WF_pc(Returning)

(***************************************************************************)
(* Repeated runs of diverse findPaths                                      *)
(***************************************************************************)
\* findPaths takes no seed and selectNextNode draws from Math.random(): a second run
\* with the same source and parameters is a new series of draws
RepeatedResultCounts == {1, 2}
RepeatFindPaths ==
    /\ op = "findPaths" /\ pc = "returned" /\ call.targetId = NoTarget
    /\ previous' = [call |-> call, result |-> result, ran |-> TRUE]
    /\ attempts' = 0 /\ visitedPaths' = {} /\ paths' = <<>> /\ result' = <<>>
    /\ pc' = "sampling"
    /\ UNCHANGED <<graph, communities, centrality, call, op, builderVars, queryVars, outsideGraph>>

NextRepeated ==
    \/ AnalyzeGraph
    \/ \E mr \in RepeatedResultCounts : FindPathsDiverse("c1", MaxLen, mr)
    \/ RepeatFindPaths
    \/ SampleAttempt
    \/ SampleReturn

SpecRepeated == Init /\ [][NextRepeated]_vars

(***************************************************************************)
(* GraphBuilder: text processing                                           *)
(***************************************************************************)
LowerLetters == <<"a", "b", "c", "d", "e", "f", "g", "h", "i", "j", "k", "l", "m",
                  "n", "o", "p", "q", "r", "s", "t", "u", "v", "w", "x", "y", "z">>
UpperLetters == <<"A", "B", "C", "D", "E", "F", "G", "H", "I", "J", "K", "L", "M",
                  "N", "O", "P", "Q", "R", "S", "T", "U", "V", "W", "X", "Y", "Z">>
Digits == {"0", "1", "2", "3", "4", "5", "6", "7", "8", "9"}
IsLower(c) == \E i \in DOMAIN LowerLetters : LowerLetters[i] = c
IsWhitespace(c) == c = " "

\* toLowerCase, on a sequence of characters
LowerChar(c) ==
    IF \E i \in DOMAIN UpperLetters : UpperLetters[i] = c
    THEN LowerLetters[CHOOSE i \in DOMAIN UpperLetters : UpperLetters[i] = c]
    ELSE c
ToLowerCase(t) == [i \in DOMAIN t |-> LowerChar(t[i])]

\* the characters of a sequence as one string
Str(chars) == Join(chars, "")

\* `${title} ${abstract} ${keywords?.join(' ') || ''}`
RECURSIVE JoinSeqs(_, _)
JoinSeqs(ss, sep) ==
    IF ss = <<>> THEN <<>>
    ELSE IF Len(ss) = 1 THEN ss[1]
    ELSE JoinSeqs(SubSeq(ss, 1, Len(ss) - 1), sep) \o sep \o ss[Len(ss)]
PaperText(paper) ==
    paper.title \o <<" ">> \o paper.abstract \o <<" ">> \o JoinSeqs(paper.keywords, <<" ">>)

\* text.match(/\b[a-z]+(?:-[a-z]+)?\b/g) on text whose characters are letters, blanks,
\* hyphens and punctuation: a maximal run of letters, with one hyphenated run after it
RECURSIVE RunEnd(_, _)
RunEnd(t, i) == IF i < Len(t) /\ IsLower(t[i + 1]) THEN RunEnd(t, i + 1) ELSE i
RECURSIVE MatchWords(_, _)
MatchWords(t, i) ==
    IF i > Len(t) THEN <<>>
    ELSE IF ~IsLower(t[i]) THEN MatchWords(t, i + 1)
    ELSE LET j == RunEnd(t, i)
             k == IF j + 2 <= Len(t) /\ t[j + 1] = "-" /\ IsLower(t[j + 2])
                  THEN RunEnd(t, j + 2) ELSE j
         IN  <<SubSeq(t, i, k)>> \o MatchWords(t, k + 1)

\* the bigrams and trigrams of the words, in the order the loop pushes them
RECURSIVE PhrasesFrom(_, _)
PhrasesFrom(words, i) ==
    IF i > Len(words) - 1 THEN <<>>
    ELSE <<words[i] \o <<" ">> \o words[i + 1]>>
         \o (IF i < Len(words) - 1
             THEN <<words[i] \o <<" ">> \o words[i + 1] \o <<" ">> \o words[i + 2]>>
             ELSE <<>>)
         \o PhrasesFrom(words, i + 1)

\* phraseFreq: the distinct phrases in order of first occurrence, each with its count
Occurrences(phrases, ph) == Cardinality({i \in DOMAIN phrases : phrases[i] = ph})
DistinctInOrder(s) ==
    LET first == {i \in DOMAIN s : \A j \in 1..(i - 1) : s[j] # s[i]}
    IN  [k \in 1..Cardinality(first) |->
           s[CHOOSE i \in first : Cardinality({j \in first : j <= i}) = k]]

\* normalizeConceptId: lower case, each run of whitespace becomes "_", every other
\* character outside [a-z0-9_] is dropped
RECURSIVE NormalizeChars(_, _)
NormalizeChars(t, i) ==
    IF i > Len(t) THEN <<>>
    ELSE IF IsWhitespace(t[i])
    THEN (IF i > 1 /\ IsWhitespace(t[i - 1]) THEN <<>> ELSE <<"_">>) \o NormalizeChars(t, i + 1)
    ELSE IF IsLower(t[i]) \/ t[i] \in Digits \/ t[i] = "_"
    THEN <<t[i]>> \o NormalizeChars(t, i + 1)
    ELSE NormalizeChars(t, i + 1)
NormalizeConceptId(phrase) == Str(NormalizeChars(ToLowerCase(phrase), 1))

MinFreq == 2        \* freq >= 2
MinLabelLen == 5    \* phrase.length > 5

KeepPhraseAny(freq, phrase) == TRUE
KeepPhrase(freq, phrase) == freq >= MinFreq /\ Len(phrase) > MinLabelLen

\* the four keyword families of `patterns`, in the order Object.entries visits them
TypeOrder == <<"method", "material", "theory", "phenomenon">>
MethodWords ==
    {<<"m", "e", "t", "h", "o", "d">>, <<"t", "e", "c", "h", "n", "i", "q", "u", "e">>,
     <<"a", "p", "p", "r", "o", "a", "c", "h">>, <<"a", "l", "g", "o", "r", "i", "t", "h", "m">>,
     <<"p", "r", "o", "c", "e", "d", "u", "r", "e">>, <<"p", "r", "o", "t", "o", "c", "o", "l">>,
     <<"a", "s", "s", "a", "y">>}
MaterialWords ==
    {<<"m", "a", "t", "e", "r", "i", "a", "l">>, <<"c", "o", "m", "p", "o", "u", "n", "d">>,
     <<"p", "r", "o", "t", "e", "i", "n">>, <<"m", "o", "l", "e", "c", "u", "l", "e">>,
     <<"c", "e", "l", "l">>, <<"t", "i", "s", "s", "u", "e">>,
     <<"p", "o", "l", "y", "m", "e", "r">>, <<"c", "o", "m", "p", "o", "s", "i", "t", "e">>}
TheoryWords ==
    {<<"t", "h", "e", "o", "r", "y">>, <<"m", "o", "d", "e", "l">>,
     <<"h", "y", "p", "o", "t", "h", "e", "s", "i", "s">>,
     <<"f", "r", "a", "m", "e", "w", "o", "r", "k">>, <<"p", "a", "r", "a", "d", "i", "g", "m">>,
     <<"p", "r", "i", "n", "c", "i", "p", "l", "e">>}
PhenomenonWords ==
    {<<"e", "f", "f", "e", "c", "t">>, <<"p", "h", "e", "n", "o", "m", "e", "n", "o", "n">>,
     <<"p", "r", "o", "c", "e", "s", "s">>, <<"m", "e", "c", "h", "a", "n", "i", "s", "m">>,
     <<"p", "a", "t", "h", "w", "a", "y">>,
     <<"i", "n", "t", "e", "r", "a", "c", "t", "i", "o", "n">>}
Family(type) ==
    CASE type = "method" -> MethodWords
      [] type = "material" -> MaterialWords
      [] type = "theory" -> TheoryWords
      [] OTHER -> PhenomenonWords
\* const patterns = {...}: four fresh regular expressions, each with lastIndex 0
NewPatterns == [type \in {TypeOrder[k] : k \in DOMAIN TypeOrder} |-> 0]

\* \w and \b of the patterns
IsWordChar(c) == IsLower(LowerChar(c)) \/ c \in Digits \/ c = "_"
\* /\b(w1|w2|...)\b/i matches at position s (from 1) of t
MatchAt(t, word, s) ==
    /\ s + Len(word) - 1 <= Len(t)
    /\ ToLowerCase(SubSeq(t, s, s + Len(word) - 1)) = word
    /\ s = 1 \/ ~IsWordChar(t[s - 1])
    /\ s + Len(word) - 1 = Len(t) \/ ~IsWordChar(t[s + Len(word)])
\* pattern.test(t) of a pattern with the g flag: the search starts at lastIndex; a match
\* leaves lastIndex at its end, a failure resets lastIndex to 0
RegexTest(words, t, lastIndex) ==
    LET starts == {s \in (lastIndex + 1)..Len(t) : \E w \in words : MatchAt(t, w, s)}
        s == CHOOSE x \in starts : \A y \in starts : x <= y
        w == CHOOSE x \in words : MatchAt(t, x, s)
    IN  IF starts = {} THEN [found |-> FALSE, lastIndex |-> 0]
        ELSE [found |-> TRUE, lastIndex |-> s + Len(w) - 1]

\* classifyConceptType(phrase, patterns) from the k-th pattern on: the type, and the
\* patterns as the tests leave them
RECURSIVE ClassifyFrom(_, _, _)
ClassifyFrom(phrase, patterns, k) ==
    IF k > Len(TypeOrder) THEN [type |-> "concept", patterns |-> patterns]
    ELSE LET tested == RegexTest(Family(TypeOrder[k]), phrase, patterns[TypeOrder[k]])
             after == [patterns EXCEPT ![TypeOrder[k]] = tested.lastIndex]
         IN  IF tested.found THEN [type |-> TypeOrder[k], patterns |-> after]
             ELSE ClassifyFrom(phrase, after, k + 1)
ClassifyConceptType(phrase, patterns) == ClassifyFrom(phrase, patterns, 1)
\* the types of the kept phrases, classified one after the other with the same patterns
RECURSIVE ClassifyAll(_, _)
ClassifyAll(kept, patterns) ==
    IF kept = <<>> THEN <<>>
    ELSE LET classified == ClassifyConceptType(kept[1], patterns)
         IN  <<classified.type>> \o ClassifyAll(Tail(kept), classified.patterns)

\* identifyConcepts(text, paperId)
IdentifyConcepts(text, paperId) ==
    LET words == MatchWords(ToLowerCase(text), 1)
        phrases == PhrasesFrom(words, 1)
        keys == DistinctInOrder(phrases)
        kept == SelectSeq(keys, LAMBDA ph : KeepPhrase(Occurrences(phrases, ph), ph))
        types == ClassifyAll(kept, NewPatterns)
    IN  [i \in DOMAIN kept |->
           [id |-> NormalizeConceptId(kept[i]),
            label |-> Str(kept[i]),
            type |-> types[i],
            papers |-> <<paperId>>,
            frequency |-> Occurrences(phrases, kept[i])]]

(***************************************************************************)
(* Queries of the reasoner                                                 *)
(***************************************************************************)
MaxFrequency == 2   \* largest frequency of a concept that is not extracted
DefaultTopN == 20
DefaultLimit == 20

\* graph.forEachNode visits the nodes in insertion order
NodeOrder == <<"c1", "c2", "c3">>
LabelOf(n) ==
    CASE n = "c1" -> <<"N", "e", "t">>
      [] n = "c2" -> <<"n", "e", "t", " ", "x">>
      [] n = "c3" -> <<"X", "y">>
\* the ConceptNode attributes of the nodes, label and frequency
AttributeLists ==
    {[k \in DOMAIN NodeOrder |->
         [id |-> NodeOrder[k], label |-> LabelOf(NodeOrder[k]), frequency |-> f[NodeOrder[k]]]] :
       f \in [NodeIds -> 1..MaxFrequency]}
QueryGraphs ==
    {[nodes |-> g.nodes, weight |-> g.weight, attributes |-> a] :
       g \in {h \in Graphs : DOMAIN h.weight \subseteq {<<"c1", "c2">>}}, a \in AttributeLists}
GetNodeAttributes(g, n) == g.attributes[CHOOSE k \in DOMAIN g.attributes : g.attributes[k].id = n]

QueriedIds == NodeIds \cup {MissingId}
CommunityIds == {0, 1}
Limits == {1, DefaultLimit}
TopNs == {0, 1, 2, DefaultTopN}
KeywordLists ==
    { <<>>, << <<"n", "e", "t">> >>, << <<"N", "E", "T">> >>, << <<"x">> >>, << <<>> >>,
      << <<"q">> >>, << <<"q">>, <<"y">> >> }

\* array.sort((a, b) => key(b) - key(a)), keys[i] being the key of s[i]: stable,
\* largest key first
SortDescending(s, keys) ==
    LET before(i) == {j \in DOMAIN s : \/ Less(keys[i], keys[j])
                                        \/ (j < i /\ ~Less(keys[j], keys[i]))}
    IN  [r \in DOMAIN s |-> s[CHOOSE i \in DOMAIN s : Cardinality(before(i)) = r - 1]]

\* label.includes(k)
StringIncludes(label, k) ==
    \E i \in 0..(Len(label) - Len(k)) : SubSeq(label, i + 1, i + Len(k)) = k

\* what a query returned: a list in value, a number in number, or undefined
Returns(v) == [threw |-> FALSE, undefined |-> FALSE, number |-> 0, value |-> v]
ReturnsNumber(n) == [threw |-> FALSE, undefined |-> FALSE, number |-> n, value |-> <<>>]
ReturnsUndefined == [threw |-> FALSE, undefined |-> TRUE, number |-> 0, value |-> <<>>]

\* new GraphReasoner(graph), for the queries
InitQueries ==
    /\ graph \in QueryGraphs
    /\ communities = Undefined /\ centrality = Undefined
    /\ call = NoCall /\ pc = "idle"
    /\ attempts = 0 /\ visitedPaths = {} /\ paths = <<>> /\ result = <<>>
    /\ BuilderIdle /\ QueriesIdle
    /\ op = "new"

\* getCommunity(conceptId): this.communities?.get(conceptId)
GetCommunity(conceptId) ==
    /\ query' = [name |-> "getCommunity", conceptId |-> conceptId, repeated |-> FALSE]
    /\ answer' = IF communities = Undefined \/ conceptId \notin DOMAIN communities
                 THEN ReturnsUndefined
                 ELSE ReturnsNumber(communities[conceptId])
    /\ op' = "getCommunity"
    /\ UNCHANGED <<reasonerVars, builderVars, previous, outsideGraph>>

\* getCommunityConcepts(communityId, limit)
CommunityConceptsOf(g, comm, communityId, limit) ==
    IF comm = Undefined THEN <<>>
    ELSE Slice(SelectSeq(g.attributes, LAMBDA node : comm[node.id] = communityId), limit)
GetCommunityConcepts(communityId, limit) ==
    /\ query' = [name |-> "getCommunityConcepts", communityId |-> communityId,
                 limit |-> limit, repeated |-> FALSE]
    /\ answer' = Returns(CommunityConceptsOf(graph, communities, communityId, limit))
    /\ op' = "getCommunityConcepts"
    /\ UNCHANGED <<reasonerVars, builderVars, previous, outsideGraph>>

\* findBridgeConcepts(topN): runs analyzeGraph first when there is no centrality yet
BridgeConceptsOf(g, cent, topN) ==
    LET entries == [k \in DOMAIN NodeOrder |-> <<NodeOrder[k], cent[NodeOrder[k]]>>]
        top == Slice(SortDescending(entries, [k \in DOMAIN entries |-> entries[k][2]]), topN)
    IN  [k \in DOMAIN top |-> GetNodeAttributes(g, top[k][1])]
FindBridgeConcepts(topN) ==
    /\ IF centrality = Undefined
       THEN communities' \in CommunityMaps /\ centrality' \in CentralityMaps
       ELSE UNCHANGED <<communities, centrality>>
    /\ query' = [name |-> "findBridgeConcepts", topN |-> topN, repeated |-> FALSE]
    /\ answer' = Returns(BridgeConceptsOf(graph, centrality', topN))
    /\ op' = "findBridgeConcepts"
    /\ UNCHANGED <<graph, call, pc, attempts, visitedPaths, paths, result, builderVars, previous,
                   outsideGraph>>

\* searchConcepts(keywords)
SortByFrequencyNot(results) == results
SortByFrequency(results) ==
    SortDescending(results, [k \in DOMAIN results |-> Int2Num(results[k].frequency)])
SearchResults(g, keywords) ==
    LET keywordLower == [k \in DOMAIN keywords |-> ToLowerCase(keywords[k])]
        hit(node) == \E k \in DOMAIN keywordLower :
                        StringIncludes(ToLowerCase(node.label), keywordLower[k])
    IN  SortByFrequency(SelectSeq(g.attributes, hit))
\* forEachNode removing what it has pushed
SearchConceptsConsuming(keywords) ==
    /\ query' = [name |-> "searchConcepts", keywords |-> keywords,
                 repeated |-> op = "searchConcepts" /\ query.keywords = keywords]
    /\ answer' = Returns(SearchResults(graph, keywords))
    /\ graph' = [graph EXCEPT !.attributes =
                    SelectSeq(@, LAMBDA node : \A k \in DOMAIN answer'.value :
                                                  answer'.value[k].id # node.id)]
    /\ op' = "searchConcepts"
    /\ UNCHANGED <<communities, centrality, call, pc, attempts, visitedPaths, paths, result,
                   builderVars, previous, outsideGraph>>
SearchConcepts(keywords) ==
    /\ query' = [name |-> "searchConcepts", keywords |-> keywords,
                 repeated |-> op = "searchConcepts" /\ query.keywords = keywords]
    /\ answer' = Returns(SearchResults(graph, keywords))
    /\ op' = "searchConcepts"
    /\ UNCHANGED <<reasonerVars, builderVars, previous, outsideGraph>>

NextQueries ==
    \/ AnalyzeGraph
    \/ \E id \in QueriedIds : GetCommunity(id)
    \/ \E c \in CommunityIds, l \in Limits : GetCommunityConcepts(c, l)
    \/ \E n \in TopNs : FindBridgeConcepts(n)
    \/ \E kw \in KeywordLists : SearchConcepts(kw)

SpecQueries == InitQueries /\ [][NextQueries]_vars

(***************************************************************************)
(* GraphBuilder: concept maps and relationships                            *)
(***************************************************************************)
\* a Map<string, ConceptNode> is the sequence of its values in insertion order
MapHas(cm, id) == \E i \in DOMAIN cm : cm[i].id = id
MapIndex(cm, id) == CHOOSE i \in DOMAIN cm : cm[i].id = id
MapGet(cm, id) == cm[MapIndex(cm, id)]

\* the body of the inner loop of extractConcepts
MergeConcept(cm, concept, paperId) ==
    IF ~MapHas(cm, concept.id) THEN Append(cm, concept)
    ELSE [cm EXCEPT ![MapIndex(cm, concept.id)] =
            [@ EXCEPT !.papers = Append(@, paperId), !.frequency = @ + 1]]

RECURSIVE MergeAll(_, _, _)
MergeAll(cm, extracted, paperId) ==
    IF extracted = <<>> THEN cm
    ELSE MergeAll(MergeConcept(cm, extracted[1], paperId), Tail(extracted), paperId)

PaperIds == {"A", "B"}
\* title, abstract and keywords of the papers the corpus is drawn from
DeepNet ==
    [title |-> <<"d", "e", "e", "p", " ", "n", "e", "t">>,
     abstract |-> <<"D", "e", "e", "p", " ", "n", "e", "t", ":", " ", "a", "b", " ", "c", "d">>,
     keywords |-> << <<"a", "b">>, <<"c", "d">> >>]
NetFoldDeepNet ==
    [title |-> <<"n", "e", "t", " ", "f", "o", "l", "d", " ", "d", "e", "e", "p", " ", "n", "e", "t">>,
     abstract |-> <<"N", "e", "t", " ", "f", "o", "l", "d", ",", " ", "d", "e", "e", "p", " ", "n", "e", "t">>,
     keywords |-> <<>>]
XRay ==
    [title |-> <<"x", "-", "r", "a", "y", " ", "a", "b", " ", "x", "-", "r", "a", "y", " ", "a", "b">>,
     abstract |-> <<"x", "r", "a", "y", " ", "a", "b", " ", "x", "r", "a", "y", " ", "a", "b">>,
     keywords |-> <<>>]
\* a paper is held as its id and the name of its content
Contents == {"DeepNet", "NetFoldDeepNet", "XRay"}
ContentOf(name) ==
    CASE name = "DeepNet" -> DeepNet
      [] name = "NetFoldDeepNet" -> NetFoldDeepNet
      [] name = "XRay" -> XRay
Papers == [id : PaperIds, content : Contents]
TextOf(paper) == PaperText(ContentOf(paper.content))

\* extractConcepts(papers)
RECURSIVE ExtractFrom(_, _)
ExtractFrom(cm, ps) ==
    IF ps = <<>> THEN cm
    ELSE ExtractFrom(MergeAll(cm, IdentifyConcepts(TextOf(ps[1]), ps[1].id), ps[1].id),
                     Tail(ps))
ExtractConceptsOf(ps) == ExtractFrom(<<>>, ps)

\* this.papers is a Map keyed by paper id: the sequence of its keys in insertion order
\* (buildRelationships reads nothing of a stored paper but its id)
RECURSIVE StoreAll(_, _)
StoreAll(store, ps) ==
    IF ps = <<>> THEN store
    ELSE StoreAll(IF ps[1].id \in SeqSet(store) THEN store ELSE Append(store, ps[1].id),
                  Tail(ps))

Includes(list, x) == \E i \in DOMAIN list : list[i] = x
MinOf(a, b) == IF a < b THEN a ELSE b
MaxOf(a, b) == IF a < b THEN b ELSE a

PaperConcepts(cm, paperId) ==
    LET hits == SelectSeq(cm, LAMBDA c : Includes(c.papers, paperId))
    IN  [i \in DOMAIN hits |-> hits[i].id]

\* a variant that pairs the later concept with the earlier one
PairsOfBackward(ids) ==
    LET n == Len(ids)
        rank(i, j) == (i - 1) * n - (i * (i - 1)) \div 2 + (j - i)
        at(r) == CHOOSE q \in (1..n) \X (1..n) : q[1] < q[2] /\ rank(q[1], q[2]) = r
    IN  [r \in 1..((n * (n - 1)) \div 2) |-> <<ids[at(r)[2]], ids[at(r)[1]]>>]
\* the pairs (paperConcepts[i], paperConcepts[j]), i < j, in the order the two loops
\* visit them
PairsOf(ids) ==
    LET n == Len(ids)
        rank(i, j) == (i - 1) * n - (i * (i - 1)) \div 2 + (j - i)
        at(r) == CHOOSE q \in (1..n) \X (1..n) : q[1] < q[2] /\ rank(q[1], q[2]) = r
    IN  [r \in 1..((n * (n - 1)) \div 2) |-> <<ids[at(r)[1]], ids[at(r)[2]]>>]
\* the pairs counted by the loop over this.papers.values(), in order
RECURSIVE PairsCounted(_, _)
PairsCounted(store, cm) ==
    IF store = <<>> THEN <<>>
    ELSE PairsOf(PaperConcepts(cm, store[1])) \o PairsCounted(Tail(store), cm)
\* cooccurrence, a Map of Maps, as the sequence of [source, targets] in insertion
\* order, targets the sequence of [target, count] in insertion order:
\* targetMap.set(target, (targetMap.get(target) || 0) + 1)
CountCooccurrences(store, cm) ==
    LET counted == PairsCounted(store, cm)
        sources == DistinctInOrder([k \in DOMAIN counted |-> counted[k][1]])
        targetsOf(source) ==
            LET hits == SelectSeq(counted, LAMBDA q : q[1] = source)
                all == [k \in DOMAIN hits |-> hits[k][2]]
                keys == DistinctInOrder(all)
            IN  [k \in DOMAIN keys |-> [target |-> keys[k], count |-> Occurrences(all, keys[k])]]
    IN  [k \in DOMAIN sources |-> [source |-> sources[k], targets |-> targetsOf(sources[k])]]

Threshold == Num(1, 10)
Significant(weight) == Less(Threshold, weight)

Evidence(store, a, b) ==
    SelectSeq(store, LAMBDA id : Includes(a.papers, id) /\ Includes(b.papers, id))

\* the edge of one (source, target, count) entry, or none
EdgeOf(store, cm, source, target, count) ==
    LET a == MapGet(cm, source)
        b == MapGet(cm, target)
        weight == Divide(Int2Num(count), Int2Num(MinOf(a.frequency, b.frequency)))
        confidence == Divide(Int2Num(count), Int2Num(MaxOf(a.frequency, b.frequency)))
    IN  IF ~MapHas(cm, source) \/ ~MapHas(cm, target) THEN <<>>
        ELSE IF Significant(weight)
        THEN <<[source |-> source, target |-> target, weight |-> weight,
                confidence |-> confidence, evidence |-> Evidence(store, a, b)]>>
        ELSE <<>>

RECURSIVE EdgesOfTargets(_, _, _, _)
EdgesOfTargets(store, cm, source, targets) ==
    IF targets = <<>> THEN <<>>
    ELSE EdgeOf(store, cm, source, targets[1].target, targets[1].count)
         \o EdgesOfTargets(store, cm, source, Tail(targets))
RECURSIVE EdgesOfCooccurrence(_, _, _)
EdgesOfCooccurrence(store, cm, cooc) ==
    IF cooc = <<>> THEN <<>>
    ELSE EdgesOfTargets(store, cm, cooc[1].source, cooc[1].targets)
         \o EdgesOfCooccurrence(store, cm, Tail(cooc))

\* buildRelationships(concepts) on a builder whose this.papers is `store`
BuildRelationshipsOf(store, cm) ==
    EdgesOfCooccurrence(store, cm, CountCooccurrences(store, cm))

\* graph.addNode for every concept: throws at the first id that is a node already
AddNodes(g, cm) ==
    LET clash == {i \in DOMAIN cm : HasNode(g, cm[i].id)}
        stop == IF clash = {} THEN Len(cm) + 1
                ELSE CHOOSE i \in clash : \A j \in clash : i <= j
    IN  [graph |-> [g EXCEPT !.nodes = @ \cup {cm[i].id : i \in 1..(stop - 1)}],
         threw |-> clash # {}]
\* graph.addEdge inside try/catch: an edge whose pair is present already, or whose
\* end is no node, throws and is skipped, so the first write of a pair wins
AddEdges(g, es) ==
    LET new == {<<es[i].source, es[i].target>> : i \in DOMAIN es} \ DOMAIN g.weight
        ok == {e \in new : HasNode(g, e[1]) /\ HasNode(g, e[2])}
        first(e) == CHOOSE i \in DOMAIN es :
                       /\ <<es[i].source, es[i].target>> = e
                       /\ \A j \in 1..(i - 1) : <<es[j].source, es[j].target>> # e
    IN  [g EXCEPT !.weight =
           [e \in DOMAIN g.weight \cup ok |->
              IF e \in DOMAIN g.weight THEN g.weight[e] ELSE es[first(e)].weight]]

(***************************************************************************)
(* Inputs and operations of the builder                                    *)
(***************************************************************************)
MaxPapers == 2      \* longest list of papers handed to one call

PaperLists == UNION {[1..n -> Papers] : n \in 0..MaxPapers}
\* the lists loaded into this.papers, which keeps the ids only
LoadLists == UNION {[1..n -> [id : PaperIds, content : {"DeepNet"}]] : n \in 0..MaxPapers}

\* concept maps built by hand, as the tests of buildRelationships build them
HandPapers == {<<>>, <<"A">>, <<"B">>, <<"A", "B">>}
HandConcept(id, ps, f) ==
    [id |-> id, label |-> id, type |-> "concept", papers |-> ps, frequency |-> f]
HandMaps ==
    {<<HandConcept("concept_a", pa, fa), HandConcept("concept_b", pb, fb)>> :
       pa \in HandPapers, pb \in HandPapers,
       fa \in 0..MaxFrequency, fb \in 0..MaxFrequency}

\* extractConcepts on every input list, evaluated once
ExtractedOf == [ps \in PaperLists |-> ExtractConceptsOf(ps)] @@ <<>>

EmptyGraph == [nodes |-> {}, weight |-> <<>>]

ReasonerIdle ==
    /\ communities = Undefined /\ centrality = Undefined
    /\ call = NoCall /\ pc = "idle"
    /\ attempts = 0 /\ visitedPaths = {} /\ paths = <<>> /\ result = <<>>
    /\ QueriesIdle

\* new GraphBuilder()
InitBuilder ==
    /\ graph = EmptyGraph
    /\ papers = <<>>
    /\ extractInput = <<>> /\ concepts = <<>> /\ relInput = <<>> /\ edges = <<>>
    /\ ReasonerIdle
    /\ op = "new"

\* loadPapersFromCSV, from the parsed records on: this.papers.set(paper.id, paper)
LoadPapersFromCSV(ps) ==
    /\ papers' = StoreAll(papers, ps)
    /\ extractInput' = <<>> /\ concepts' = <<>> /\ relInput' = <<>> /\ edges' = <<>>
    /\ op' = "loadPapersFromCSV"
    /\ UNCHANGED outsideBuilder

\* extractConcepts(papers)
ExtractConcepts(ps) ==
    /\ extractInput' = ps
    /\ concepts' = ExtractedOf[ps]
    /\ relInput' = <<>> /\ edges' = <<>>
    /\ op' = "extractConcepts"
    /\ UNCHANGED <<papers, outsideBuilder>>

\* buildRelationships(concepts) on the map the last extractConcepts returned
BuildRelationshipsExtracted ==
    /\ op = "extractConcepts"
    /\ relInput' = concepts
    /\ edges' = BuildRelationshipsOf(papers, concepts)
    /\ op' = "buildRelationships"
    /\ UNCHANGED <<papers, extractInput, concepts, outsideBuilder>>

\* buildRelationships(concepts) on a hand-built map
BuildRelationshipsHand(cm) ==
    /\ relInput' = cm
    /\ edges' = BuildRelationshipsOf(papers, cm)
    /\ extractInput' = <<>> /\ concepts' = <<>>
    /\ op' = "buildRelationships"
    /\ UNCHANGED <<papers, outsideBuilder>>

\* buildGraph(csvPath): load, extract, relate, then fill the graphology instance
BuildGraph(ps) ==
    \E store \in {StoreAll(papers, ps)}, cm \in {ExtractedOf[ps]} :
    \E es \in {BuildRelationshipsOf(store, cm)}, added \in {AddNodes(graph, cm)} :
        /\ papers' = store
        /\ extractInput' = ps /\ concepts' = cm
        /\ relInput' = cm /\ edges' = es
        /\ graph' = IF added.threw THEN added.graph ELSE AddEdges(added.graph, es)
        /\ op' = IF added.threw THEN "buildGraph threw" ELSE "buildGraph"
        /\ UNCHANGED <<communities, centrality, call, pc, attempts, visitedPaths, paths, result,
                       queryVars, previous, outsideGraph>>

NextBuilder ==
    \/ \E ps \in LoadLists : LoadPapersFromCSV(ps)
    \/ \E ps \in PaperLists : ExtractConcepts(ps)
    \/ BuildRelationshipsExtracted
    \/ \E cm \in HandMaps : BuildRelationshipsHand(cm)

SpecBuilder == InitBuilder /\ [][NextBuilder]_vars

\* the builder used through buildGraph, on the papers of one CSV file after another
NextAssemble == \E ps \in PaperLists : BuildGraph(ps)

SpecAssemble == InitBuilder /\ [][NextAssemble]_vars

(***************************************************************************)
(* Classification of extracted phrases                                     *)
(***************************************************************************)
MaxTitleWords == 3     \* most words in the phrase a title repeats
Vocabulary ==
    {<<"n", "e", "w">>, <<"m", "e", "t", "h", "o", "d">>, <<"c", "e", "l", "l">>,
     <<"m", "o", "d", "e", "l">>, <<"e", "f", "f", "e", "c", "t">>}
WordLists == UNION {[1..n -> Vocabulary] : n \in 1..MaxTitleWords}
\* a paper whose title says the words twice, with no abstract and no keywords
TitledPaper(words) ==
    [id |-> "A", title |-> JoinSeqs(words \o words, <<" ">>), abstract |-> <<>>,
     keywords |-> <<>>]

\* extractConcepts([paper]) on every such paper, evaluated once
ExtractedTitled ==
    [words \in WordLists |->
       MergeAll(<<>>, IdentifyConcepts(PaperText(TitledPaper(words)), "A"), "A")] @@ <<>>

\* extractConcepts([paper]) for one such paper
ExtractConceptsTitled(words) ==
    /\ extractInput' = <<TitledPaper(words)>>
    /\ concepts' = ExtractedTitled[words]
    /\ relInput' = <<>> /\ edges' = <<>>
    /\ op' = "extractConcepts"
    /\ UNCHANGED <<papers, outsideBuilder>>

NextClassify == \E words \in WordLists : ExtractConceptsTitled(words)
SpecClassify == InitBuilder /\ [][NextClassify]_vars

(***************************************************************************)
(* AgentOrchestrator                                                       *)
(***************************************************************************)
MaxGraphPaths == 4      \* longest graphPaths list given to runFlexibleWorkflow
TopPathCount == 3

GraphPathIds == 1..MaxGraphPaths
\* graphPath.novelty of the path with a given id
PathNovelty(p) == Num((3 * p) % 5, 10)
GraphPathLists == {[i \in 1..n |-> i] : n \in 0..MaxGraphPaths}
\* the agents map given to the constructor: complete, or one role short
AgentMaps == {Roles} \cup {Roles \ {r} : r \in Roles}

\* a variant that keeps every path
TopPathsAll(graphPaths) ==
    SortDescending(graphPaths, [k \in DOMAIN graphPaths |-> PathNovelty(graphPaths[k])])
\* graphPaths.sort((a, b) => b.novelty - a.novelty).slice(0, Math.min(3, graphPaths.length))
TopPaths(graphPaths) ==
    Slice(SortDescending(graphPaths, [k \in DOMAIN graphPaths |-> PathNovelty(graphPaths[k])]),
          TopPathCount)

\* What the assistant answers: its judgement, and how it writes the IS_NOVEL line
\* ("IS_NOVEL: no", "IS_NOVEL: NO", "IS_NOVEL: [no]", or no such line).
Judgements == {"yes", "no"}
Formats == {"plain", "upper", "bracketed", "absent"}
AssistantReplies == [judgement : Judgements, format : Formats]
NoReply == [judgement |-> "", format |-> ""]
Yes == <<"y", "e", "s">>
No == <<"n", "o">>
JudgementWord(reply) == IF reply.judgement = "yes" THEN Yes ELSE No
UpperWord(word) == [i \in DOMAIN word |-> UpperLetters[CHOOSE k \in DOMAIN LowerLetters :
                                                           LowerLetters[k] = word[i]]]
HasNovelLine(reply) == reply.format # "absent"
\* the characters that follow "IS_NOVEL:" in the reply
NovelLine(reply) ==
    CASE reply.format = "plain" -> <<" ">> \o JudgementWord(reply)
      [] reply.format = "upper" -> <<" ">> \o UpperWord(JudgementWord(reply))
      [] reply.format = "bracketed" -> <<" ", "[">> \o JudgementWord(reply) \o <<"]">>
      [] OTHER -> <<>>
SkipWhitespace(t) ==
    LET rest == {i \in DOMAIN t : ~IsWhitespace(t[i])}
    IN  IF rest = {} THEN <<>>
        ELSE SubSeq(t, CHOOSE i \in rest : \A j \in rest : i <= j, Len(t))
StartsWith(t, word) == Len(t) >= Len(word) /\ SubSeq(t, 1, Len(word)) = word
\* response.match(/IS_NOVEL:\s*(yes|no)/i): the captured word lowercased, <<>> without a match
NovelMatch(reply) ==
    IF ~HasNovelLine(reply) THEN <<>>
    ELSE LET rest == ToLowerCase(SkipWhitespace(NovelLine(reply)))
         IN  IF StartsWith(rest, Yes) THEN Yes
             ELSE IF StartsWith(rest, No) THEN No
             ELSE <<>>
\* novelMatch ? novelMatch[1].toLowerCase() === 'yes' : true
IsNovel(reply) == IF NovelMatch(reply) = <<>> THEN TRUE ELSE NovelMatch(reply) = Yes

CallEvent(role, p) == [kind |-> "call", role |-> role, path |-> p]
ReplyEvent(role, p) == [kind |-> "reply", role |-> role, path |-> p]
ErrorEvent(role, p) == [kind |-> "error", role |-> role, path |-> p]
AgentTitle(role) ==
    CASE role = "ontologist" -> "Ontologist"
      [] role = "scientist_1" -> "Scientist 1"
      [] role = "scientist_2" -> "Scientist 2"
      [] role = "critic" -> "Critic"
      [] role = "planner" -> "Planner"
      [] OTHER -> "Assistant"
NotFound(role) == AgentTitle(role) \o " agent not found"

HasAgentAlways(role) == TRUE
\* this.agents.get(role) is defined
HasAgent(role) == role \in agents

\* The run* methods named in roleSeq are invoked in order for path p: each one that
\* finds its agent calls agent.chat (the call is in flight), each one that does not
\* rejects with "... agent not found", and a rejection makes the workflow throw.
\* st = [w, log, hyps]: the workflow's position, the chat log and the hypotheses.
Invoke(st, roleSeq, p, stage) ==
    LET present == SelectSeq(roleSeq, HasAgent)
        missing == SelectSeq(roleSeq, LAMBDA r : ~HasAgent(r))
        called == {present[i] : i \in DOMAIN present}
        log == st.log \o [i \in DOMAIN present |-> CallEvent(present[i], p)]
    IN  IF missing = <<>>
        THEN [st EXCEPT !.w.stage = stage, !.w.pending = called, !.log = log]
        ELSE [st EXCEPT !.w.at = "threw", !.w.error = NotFound(missing[1]),
                        !.w.pending = called, !.log = log]

\* the hypothesis object compiled from the refined text and the critiques
Compile(st) ==
    [st EXCEPT !.hyps = Append(@, [graphPath |-> st.w.graphPath, status |-> "reviewed"])]

\* one turn of `for (const path of topPaths)`: Promise.all([runOntologist, runScientist1]),
\* or the return of the list after the last path
ProcessPath(st, k) ==
    IF k > Len(st.w.topPaths)
    THEN [st EXCEPT !.w.at = "returned", !.w.stage = ""]
    ELSE Invoke([st EXCEPT !.w.index = k, !.w.graphPath = st.w.topPaths[k]],
                <<"ontologist", "scientist_1">>, st.w.topPaths[k], "generate")

\* what the workflow does once every chat it awaits has replied, up to its next await
Continue(st, reply) ==
    LET p == st.w.graphPath
        sequential == st.w.mode = "sequential"
        checked == [st EXCEPT !.w.checks = Append(@, [path |-> p,
                                                       judgement |-> reply.judgement,
                                                       isNovel |-> IsNovel(reply)])]
    IN  CASE sequential /\ st.w.stage = "ontologist" -> Invoke(st, <<"scientist_1">>, p, "scientist_1")
          [] sequential /\ st.w.stage = "scientist_1" -> Invoke(st, <<"scientist_2">>, p, "scientist_2")
          [] sequential /\ st.w.stage = "scientist_2" -> Invoke(st, <<"critic">>, p, "critic")
          [] sequential /\ st.w.stage = "critic" ->
                [Compile(st) EXCEPT !.w.at = "returned", !.w.stage = ""]
          [] ~sequential /\ st.w.stage = "planner" ->
                ProcessPath([st EXCEPT !.w.topPaths = TopPaths(st.w.graphPaths)], 1)
          [] ~sequential /\ st.w.stage = "generate" -> Invoke(st, <<"scientist_2">>, p, "scientist_2")
          [] ~sequential /\ st.w.stage = "scientist_2" -> Invoke(st, <<"assistant">>, p, "assistant")
          [] ~sequential /\ st.w.stage = "assistant" ->
                IF IsNovel(reply) THEN Invoke(checked, <<"critic">>, p, "critic")
                ELSE ProcessPath(checked, st.w.index + 1)
          [] OTHER -> ProcessPath(Compile(st), st.w.index + 1)

outsideWorkflow == <<agents, reasonerVars, builderVars, op, queryVars, previous, retrievalVars,
                     baseAgentVars, generation>>
Apply(st) == workflow' = st.w /\ chatLog' = st.log /\ hypotheses' = st.hyps
Started(mode) == [w |-> [NoWorkflow EXCEPT !.mode = mode, !.at = "running"],
                  log |-> <<>>, hyps |-> <<>>]

\* new AgentOrchestrator(agents)
InitOrchestrator ==
    /\ graph = EmptyGraph /\ BuilderIdle
    /\ communities = Undefined /\ centrality = Undefined
    /\ call = NoCall /\ pc = "idle"
    /\ attempts = 0 /\ visitedPaths = {} /\ paths = <<>> /\ result = <<>>
    /\ query = NoQuery /\ answer = NoAnswer /\ previous = NoRun
    /\ RetrievalIdle /\ BaseAgentNew /\ GenerationIdle
    /\ agents \in AgentMaps
    /\ workflow = NoWorkflow /\ chatLog = <<>> /\ hypotheses = <<>>
    /\ op = "new"

\* runSequentialWorkflow(graphPath), up to its first await
RunSequentialWorkflow(graphPath) ==
    /\ workflow.at # "running" /\ workflow.pending = {}
    /\ Apply(Invoke([Started("sequential") EXCEPT !.w.graphPath = graphPath],
                    <<"ontologist">>, graphPath, "ontologist"))
    /\ UNCHANGED outsideWorkflow

\* runFlexibleWorkflow(keywords, graphPaths), up to its first await
RunFlexibleWorkflow(graphPaths) ==
    /\ workflow.at # "running" /\ workflow.pending = {}
    /\ Apply(Invoke([Started("flexible") EXCEPT !.w.graphPaths = graphPaths],
                    <<"planner">>, NoPath, "planner"))
    /\ UNCHANGED outsideWorkflow

\* agent.chat of a role resolves with a reply; the workflow resumes when it awaits
\* nothing else
ChatResolves(role, reply) ==
    /\ role \in workflow.pending
    /\ LET logged == [w |-> [workflow EXCEPT !.pending = @ \ {role}],
                      log |-> Append(chatLog, ReplyEvent(role, workflow.graphPath)),
                      hyps |-> hypotheses]
       IN  Apply(IF workflow.at = "running" /\ logged.w.pending = {}
                 THEN Continue(logged, reply)
                 ELSE logged)
    /\ UNCHANGED outsideWorkflow

\* agent.chat of a role rejects (BaseAgent.chat rethrows the API error)
ChatRejects(role) ==
    /\ role \in workflow.pending
    /\ workflow' = [workflow EXCEPT !.pending = @ \ {role},
                                    !.at = IF @ = "running" THEN "threw" ELSE @,
                                    !.error = IF workflow.at = "running" THEN "chat failed" ELSE @]
    /\ chatLog' = Append(chatLog, ErrorEvent(role, workflow.graphPath))
    /\ UNCHANGED <<hypotheses, outsideWorkflow>>

RepliesOf(role) == IF role = "assistant" THEN AssistantReplies ELSE {NoReply}
NextOrchestrator ==
    \/ \E graphPath \in {1} : RunSequentialWorkflow(graphPath)
    \/ \E graphPaths \in GraphPathLists : RunFlexibleWorkflow(graphPaths)
    \/ \E role \in Roles : \E reply \in RepliesOf(role) : ChatResolves(role, reply)
    \/ \E role \in Roles : ChatRejects(role)
SpecOrchestrator == InitOrchestrator /\ [][NextOrchestrator]_vars

(***************************************************************************)
(* DataRetrieval                                                           *)
(***************************************************************************)
Sources == {"semantic_scholar", "pubmed", "arxiv"}
\* the dataSources given to the constructor
ClientSets == SUBSET Sources
\* How a request to the MCP server ends: with results, with no result, with an error
\* that HealthcareMCPClient catches (it then returns an empty list), or with an
\* exception that reaches DataRetrieval.
McpOutcomes == {"results", "none", "failed", "threw"}
DirectSources(name) == IF name = "searchAll" THEN {"semantic_scholar", "arxiv"} ELSE {}

\* new DataRetrieval(dataSources): initHealthcareMCP() is called and not awaited, so
\* the constructor returns with mcpAvailable = false and the health check in flight
InitRetrieval ==
    /\ graph = EmptyGraph /\ BuilderIdle
    /\ communities = Undefined /\ centrality = Undefined
    /\ call = NoCall /\ pc = "idle"
    /\ attempts = 0 /\ visitedPaths = {} /\ paths = <<>> /\ result = <<>>
    /\ query = NoQuery /\ answer = NoAnswer /\ previous = NoRun
    /\ OrchestratorIdle /\ BaseAgentNew /\ GenerationIdle
    /\ mcpServer \in {"up", "down"}
    /\ clients \in ClientSets
    /\ mcpAvailable = FALSE /\ healthCheck = "pending"
    /\ search = NoSearch
    /\ op = "new"

outsideRetrieval == <<reasonerVars, builderVars, op, queryVars, previous, orchestratorVars,
                      baseAgentVars, generation>>

\* this.mcpAvailable = await this.mcpClient.healthCheck()
HealthCheckResolves ==
    /\ healthCheck = "pending"
    /\ mcpAvailable' = (mcpServer = "up")
    /\ healthCheck' = "done"
    /\ UNCHANGED <<mcpServer, clients, search, outsideRetrieval>>

\* searchPubMed from its start to its first await, for the search record s: the MCP
\* request when mcpAvailable, else the direct PubMed API, else (no client) the return
\* of an empty list
PubMedFrom(s, available) ==
    IF available
    THEN [s EXCEPT !.stage = "pubmedMcp", !.used = @ \cup {"mcp"}]
    ELSE IF "pubmed" \in clients
    THEN [s EXCEPT !.stage = "pubmedDirect", !.used = @ \cup {"direct"}]
    ELSE [s EXCEPT !.stage = "returned", !.returned = "empty list"]

\* the fallback of searchAll: Promise.all of the three searches; Semantic Scholar and
\* arXiv go to their direct APIs when they have a client
FallbackFrom(s, available) ==
    PubMedFrom([s EXCEPT !.used = IF DirectSources(s.name) \cap clients = {} THEN @
                                  ELSE @ \cup {"direct"}], available)

SearchIdle == search.stage \in {"", "returned"}

\* searchPubMed(query, limit), up to its first await
SearchPubMed ==
    /\ SearchIdle
    /\ search' = PubMedFrom([NoSearch EXCEPT !.name = "searchPubMed"], mcpAvailable)
    /\ UNCHANGED <<mcpServer, clients, mcpAvailable, healthCheck, outsideRetrieval>>

\* searchAll(query, limit), up to its first await
SearchAll ==
    /\ SearchIdle
    /\ search' = IF mcpAvailable
                 THEN [NoSearch EXCEPT !.name = "searchAll", !.stage = "mcpAll", !.used = {"mcp"}]
                 ELSE FallbackFrom([NoSearch EXCEPT !.name = "searchAll"], mcpAvailable)
    /\ UNCHANGED <<mcpServer, clients, mcpAvailable, healthCheck, outsideRetrieval>>

\* the MCP request of the search in progress ends
McpResolves(outcome) ==
    /\ search.stage \in {"pubmedMcp", "mcpAll"}
    /\ LET failed == [search EXCEPT !.mcpFailed = @ \/ outcome \in {"failed", "threw"}]
           \* only searchPubMed's catch marks MCP as unavailable
           available == mcpAvailable /\ ~(outcome = "threw" /\ search.stage = "pubmedMcp")
       IN  /\ mcpAvailable' = available
           /\ search' = IF outcome = "results"
                        THEN [search EXCEPT !.stage = "returned", !.returned = "papers"]
                        ELSE IF search.stage = "pubmedMcp" THEN PubMedFrom(failed, FALSE)
                        ELSE FallbackFrom(failed, available)
    /\ UNCHANGED <<mcpServer, clients, healthCheck, outsideRetrieval>>

\* the direct PubMed request ends with papers, with none, or with an error that is
\* caught and turned into an empty list
DirectOutcomes == {"papers", "none", "error"}
DirectResolves(outcome) ==
    /\ search.stage = "pubmedDirect"
    /\ search' = [search EXCEPT !.stage = "returned",
                                !.returned = IF outcome = "papers" THEN "papers"
                                             ELSE "empty list"]
    /\ UNCHANGED <<mcpServer, clients, mcpAvailable, healthCheck, outsideRetrieval>>

NextRetrieval ==
    \/ HealthCheckResolves
    \/ SearchPubMed
    \/ SearchAll
    \/ \E outcome \in McpOutcomes : McpResolves(outcome)
    \/ \E outcome \in DirectOutcomes : DirectResolves(outcome)
SpecRetrieval == InitRetrieval /\ [][NextRetrieval]_vars

(***************************************************************************)
(* SciHypothesisAgent.generateMultipleHypotheses                           *)
(***************************************************************************)
MaxCount == 4           \* largest count passed to generateMultipleHypotheses
DefaultCount == 3
ConceptCap == 3
\* how many concepts searchConcepts finds for the keywords
ConceptCounts == 0..ConceptCap

\* the paths flatMap can collect: findPaths returns at most maxResults = count * 2
\* paths (10 when that is 0) for each of the concepts
PathListsFor(found, count) ==
    {ps \in GraphPathLists : Len(ps) <= found * OrDefault(count * 2, DefaultMaxResults)}

outsideGeneration == <<agents, reasonerVars, builderVars, op, queryVars, previous, retrievalVars,
                       baseAgentVars>>
Generating == generation.at \in {"workflow", "checking"}

\* generateMultipleHypotheses(keywords, count) on an initialised system, up to the
\* await of runFlexibleWorkflow; `given` tells whether count was passed
GenerateMultipleHypotheses(given, c, found, allPaths) ==
    LET count == IF given THEN c ELSE DefaultCount
    IN  /\ ~Generating /\ workflow.at # "running" /\ workflow.pending = {}
        /\ IF found = 0
           THEN /\ allPaths = <<>>
                /\ generation' = [NoGeneration EXCEPT !.count = count, !.at = "threw",
                                     !.error = "No concepts found matching the keywords"]
                /\ UNCHANGED <<workflow, chatLog, hypotheses>>
           ELSE /\ allPaths \in PathListsFor(found, count)
                /\ generation' = [NoGeneration EXCEPT !.count = count, !.at = "workflow"]
                /\ Apply(Invoke([Started("flexible") EXCEPT !.w.graphPaths = allPaths],
                                <<"planner">>, NoPath, "planner"))
        /\ UNCHANGED outsideGeneration

\* return hypotheses.slice(0, count)
ReturnSlice(st) == [st EXCEPT !.at = "returned", !.returned = Slice(hypotheses, st.count)]

\* the await of runFlexibleWorkflow settles: a rejection is passed on, and with
\* hypotheses to check the first checkNovelty is awaited
WorkflowSettles ==
    /\ generation.at = "workflow" /\ workflow.at \in {"returned", "threw"}
    /\ generation' =
          IF workflow.at = "threw"
          THEN [generation EXCEPT !.at = "threw", !.error = workflow.error]
          ELSE IF hypotheses = <<>> THEN ReturnSlice(generation)
          ELSE [generation EXCEPT !.at = "checking"]
    /\ UNCHANGED <<orchestratorVars, outsideGeneration>>

\* dataRetrieval.checkNovelty of the next hypothesis resolves
CheckNoveltyResolves ==
    /\ generation.at = "checking"
    /\ generation' =
          LET next == [generation EXCEPT !.checked = @ + 1]
          IN  IF next.checked = Len(hypotheses) THEN ReturnSlice(next) ELSE next
    /\ UNCHANGED <<orchestratorVars, outsideGeneration>>

\* dataRetrieval.checkNovelty rejects
CheckNoveltyRejects ==
    /\ generation.at = "checking"
    /\ generation' = [generation EXCEPT !.at = "threw", !.error = "checkNovelty failed"]
    /\ UNCHANGED <<orchestratorVars, outsideGeneration>>

NextGenerate ==
    \/ \E given \in BOOLEAN, found \in ConceptCounts :
          \E c \in IF given THEN 0..MaxCount ELSE {0} :
              \E allPaths \in IF found = 0 THEN {<<>>} ELSE GraphPathLists :
                  GenerateMultipleHypotheses(given, c, found, allPaths)
    \/ \E role \in Roles : \E reply \in RepliesOf(role) : ChatResolves(role, reply)
    \/ \E role \in Roles : ChatRejects(role)
    \/ WorkflowSettles
    \/ CheckNoveltyResolves
    \/ CheckNoveltyRejects

SpecGenerate == InitOrchestrator /\ [][NextGenerate]_vars

(***************************************************************************)
(* BaseAgent                                                               *)
(***************************************************************************)
MaxHistory == 6     \* chat is not called once the history holds MaxHistory messages
MaxInFlight == 1    \* most chat calls of one agent awaited at a time

\* new BaseAgent(config) and nothing else
InitBaseAgent ==
    /\ graph = EmptyGraph /\ BuilderIdle
    /\ ReasonerIdle
    /\ op = "new"

outsideBaseAgent == <<reasonerVars, builderVars, queryVars, previous, orchestratorVars,
                      retrievalVars, generation>>

\* this.conversationHistory.filter(m => m.role !== 'system'), mapped to role and content
ApiMessages(history) == SelectSeq(history, LAMBDA role : role # "system")

\* chat(userMessage) up to its await: the user message is pushed, then the request
\* is made from the whole history
Chat ==
    /\ Len(conversationHistory) < MaxHistory /\ inFlight < MaxInFlight
    /\ conversationHistory' = Append(conversationHistory, "user")
    /\ sent' = ApiMessages(conversationHistory')
    /\ inFlight' = inFlight + 1
    /\ op' = "chat"
    /\ UNCHANGED outsideBaseAgent

\* messages.create resolves with a text block: the reply is pushed and returned
CreateResolves ==
    /\ inFlight > 0
    /\ conversationHistory' = Append(conversationHistory, "assistant")
    /\ inFlight' = inFlight - 1
    /\ op' = "chat returned"
    /\ UNCHANGED <<sent, outsideBaseAgent>>

\* messages.create rejects, or resolves with a block that is no text: the catch
\* logs and rethrows, the history is left as it is
CreateFails ==
    /\ inFlight > 0
    /\ inFlight' = inFlight - 1
    /\ op' = "chat threw"
    /\ UNCHANGED <<conversationHistory, sent, outsideBaseAgent>>

\* reset()
Reset ==
    /\ conversationHistory' = <<conversationHistory[1]>>
    /\ op' = "reset"
    /\ UNCHANGED <<inFlight, sent, outsideBaseAgent>>

NextBaseAgent == Chat \/ CreateResolves \/ CreateFails \/ Reset

SpecBaseAgent == InitBaseAgent /\ [][NextBaseAgent]_vars

(***************************************************************************)
(* Properties of findPaths                                                 *)
(***************************************************************************)
Returned == op = "findPaths" /\ pc = "returned"
TargetedCall == call.targetId # NoTarget
DiverseCall == call.targetId = NoTarget
InRange01(x) == LessEq(Zero, x) /\ LessEq(x, One)

\* nodes reachable from s along directed edges (s included)
RECURSIVE Closure(_, _)
Closure(g, S) ==
    LET T == S \cup {v \in g.nodes : \E u \in S : <<u, v>> \in DOMAIN g.weight}
    IN  IF T = S THEN S ELSE Closure(g, T)
ReachableFrom(g, s) == Closure(g, {s})

\* C1: every path findPaths returns, in targeted and in diverse mode, has
\* length = number of nodes = number of edges + 1 and length >= 2.
C1_PathShape ==
    Returned =>
        \A i \in DOMAIN result :
            /\ result[i].length = Len(result[i].nodes)
            /\ Len(result[i].nodes) = Len(result[i].edges) + 1
            /\ result[i].length >= 2

\* C2: the novelty of every path findPaths returns is a number within [0, 1],
\* whether or not analyzeGraph has run.
C2_NoveltyInRange ==
    Returned => \A i \in DOMAIN result : InRange01(result[i].novelty)

\* C3: the list one findPaths call returns is ordered by non-increasing novelty, and
\* paths of equal novelty keep the order in which the sampler discovered them.
DiscoveryIndex(nodeIds) == CHOOSE k \in DOMAIN paths : paths[k].nodes = nodeIds
C3_SortedStable ==
    (Returned /\ DiverseCall) =>
        /\ \A i \in DOMAIN result : \E k \in DOMAIN paths : paths[k].nodes = result[i].nodes
        /\ \A i, j \in DOMAIN result :
              i < j =>
                /\ LessEq(result[j].novelty, result[i].novelty)
                /\ result[i].novelty = result[j].novelty =>
                      DiscoveryIndex(result[i].nodes) < DiscoveryIndex(result[j].nodes)
\* a call whose sort moved a later-discovered path in front of an earlier one
C3_Witness ==
    /\ Returned /\ DiverseCall /\ Len(result) = 2
    /\ Less(result[2].novelty, result[1].novelty)
    /\ paths[1].nodes = result[2].nodes /\ paths[2].nodes = result[1].nodes

\* the walks of at least two nodes that randomWalk can return for the call
PossibleWalks ==
    {w \in RandomWalk(graph, communities, call.sourceId, call.maxLength) : Len(w) >= 2}
TwoWalksFive ==
    /\ Returned /\ DiverseCall /\ call.maxResults = 5
    /\ Cardinality(PossibleWalks) = 2

\* C4 as stated: in diverse mode, when exactly 2 distinct walks can be produced from
\* the source, findPaths with maxResults = 5 returns exactly 2 paths.
C4_ExactlyTwo == TwoWalksFive => Len(result) = 2
\* C4 as amended: it returns 1 or 2 paths, all of them distinct possible walks, after
\* using the whole budget of 50 attempts, and it returns fewer than 2 only when every
\* attempt drew the same walk.
C4_AtMostTwoDistinct ==
    TwoWalksFive =>
        /\ Len(result) \in {1, 2}
        /\ \A i \in DOMAIN result : result[i].nodes \in PossibleWalks
        /\ \A i, j \in DOMAIN result : i # j => result[i].nodes # result[j].nodes
        /\ attempts = 5 * AttemptFactor
        /\ Len(result) < 2 => Cardinality(visitedPaths) = 1
C4_Witness == TwoWalksFive /\ Len(result) = 2

\* C5: findPaths with a source and a target that are both nodes of the graph, with no
\* directed chain of edges from the source to the target, returns an empty list and
\* raises no error.
NoChain ==
    /\ op = "findPaths" /\ TargetedCall /\ pc # "sampling"
    /\ HasNode(graph, call.sourceId) /\ HasNode(graph, call.targetId)
    /\ call.targetId \notin ReachableFrom(graph, call.sourceId)
C5_NoConnectionEmpty == NoChain => (pc = "returned" /\ result = <<>>)
C5_Witness == NoChain /\ pc = "returned" /\ result = <<>>

(***************************************************************************)
(* Properties of the builder                                               *)
(***************************************************************************)
RECURSIVE SumInts(_)
SumInts(s) == IF s = <<>> THEN 0 ELSE s[1] + SumInts(Tail(s))
RECURSIVE SumOver(_, _)
SumOver(S, ph) ==
    IF S = {} THEN 0
    ELSE LET x == CHOOSE y \in S : TRUE IN Occurrences(ph, x) + SumOver(S \ {x}, ph)

\* how often the phrases of concept `id` that extraction keeps occur in one paper
PaperPhrases(p) == PhrasesFrom(MatchWords(ToLowerCase(TextOf(p)), 1), 1)
CountIn(p, id) ==
    LET ph == PaperPhrases(p)
    IN  SumOver({x \in SeqSet(ph) : /\ Occurrences(ph, x) >= 2 /\ Len(x) > 5
                                    /\ NormalizeConceptId(x) = id}, ph)
CountTable == [p \in Papers |-> [id \in {c.id : c \in UNION {SeqSet(ExtractedOf[l]) : l \in PaperLists}}
                 |-> CountIn(p, id)]] @@ <<>>

\* C6: every concept of the map extractConcepts returns has frequency >= 2 and a
\* label longer than 5 characters.
C6_ExtractionInvariant ==
    op = "extractConcepts" =>
        \A i \in DOMAIN concepts :
            concepts[i].frequency >= 2 /\ Len(concepts[i].label) > 5
\* an extraction that kept a concept and met a repeated phrase of 5 characters or fewer
C6_Witness ==
    /\ op = "extractConcepts" /\ concepts # <<>>
    /\ \E i \in DOMAIN extractInput :
          LET ph == PaperPhrases(extractInput[i])
          IN  \E x \in SeqSet(ph) : Occurrences(ph, x) >= 2 /\ Len(x) <= 5

C8_WeightConfidenceRange ==
    op = "buildRelationships" =>
        \A i \in DOMAIN edges :
            /\ Less(Threshold, edges[i].weight) /\ LessEq(edges[i].weight, One)
            /\ Less(Zero, edges[i].confidence) /\ LessEq(edges[i].confidence, One)

\* the paper ids two concepts have in common
Shared(a, b) == SeqSet(a.papers) \cap SeqSet(b.papers)
Joined(es, a, b) ==
    \E i \in DOMAIN es :
        \/ es[i].source = a.id /\ es[i].target = b.id
        \/ es[i].source = b.id /\ es[i].target = a.id

\* C9: on any builder, every two concepts of the map given to buildRelationships
\* whose papers lists share a paper id and whose co-occurrence count divided by the
\* smaller frequency exceeds 0.1 get an edge.
C9_CooccurringGetEdge ==
    op = "buildRelationships" =>
        \A i, j \in DOMAIN relInput :
            LET a == relInput[i]
                b == relInput[j]
            IN  (/\ i < j
                 /\ Shared(a, b) # {}
                 /\ Less(Threshold, Divide(Int2Num(Cardinality(Shared(a, b))),
                                           Int2Num(MinOf(a.frequency, b.frequency)))))
                => Joined(edges, a, b)

\* C10: buildRelationships emits no edge between two concepts whose papers lists
\* share no paper id, and the evidence of every edge is non-empty and is exactly the
\* set of paper ids that occur in both ends' papers lists.
C10_EvidenceIsIntersection ==
    op = "buildRelationships" =>
        \A i \in DOMAIN edges :
            LET a == MapGet(relInput, edges[i].source)
                b == MapGet(relInput, edges[i].target)
            IN  /\ Shared(a, b) # {}
                /\ edges[i].evidence # <<>>
                /\ SeqSet(edges[i].evidence) = Shared(a, b)
                /\ \A k, l \in DOMAIN edges[i].evidence :
                      k # l => edges[i].evidence[k] # edges[i].evidence[l]

(***************************************************************************)
(* Properties of the queries                                               *)
(***************************************************************************)
CommunityQueries == {"getCommunity", "getCommunityConcepts", "findBridgeConcepts"}

\* C11: a getCommunity, getCommunityConcepts or findBridgeConcepts call made before
\* analyzeGraph has run ends in an error; it returns neither undefined nor a list
\* and does not compute the analysis by itself.
C11_QueryBeforeAnalysisFails ==
    [][(communities = Undefined /\ op' \in CommunityQueries) => answer'.threw]_vars

IndexOf(n) == CHOOSE k \in DOMAIN NodeOrder : NodeOrder[k] = n
\* a comes before b: higher centrality, then higher frequency, then smaller id
RanksBefore(a, b) ==
    \/ Less(centrality[b.id], centrality[a.id])
    \/ /\ centrality[a.id] = centrality[b.id]
       /\ \/ a.frequency > b.frequency
          \/ a.frequency = b.frequency /\ IndexOf(a.id) < IndexOf(b.id)
\* C12: findBridgeConcepts(topN) returns min(topN, node count) nodes, the first of
\* the nodes ordered by non-increasing centrality, equal centrality by higher
\* frequency first and then by id.
C12_BridgeOrder ==
    op = "findBridgeConcepts" =>
        LET v == answer.value
            returned == {v[k].id : k \in DOMAIN v}
        IN  /\ Len(v) = MinOf(query.topN, Len(NodeOrder))
            /\ \A i, j \in DOMAIN v : i < j => RanksBefore(v[i], v[j])
            /\ \A i \in DOMAIN v : \A k \in DOMAIN graph.attributes :
                  graph.attributes[k].id \notin returned => RanksBefore(v[i], graph.attributes[k])

\* the label holds the keyword at some position, letter case apart
HoldsKeyword(label, keyword) ==
    \E at \in 0..(Len(label) - Len(keyword)) :
        \A p \in DOMAIN keyword : LowerChar(label[at + p]) = LowerChar(keyword[p])
Matching(keywords) ==
    {k \in DOMAIN graph.attributes :
        \E q \in DOMAIN keywords : HoldsKeyword(graph.attributes[k].label, keywords[q])}
\* C13: searchConcepts(keywords) returns exactly the nodes whose lowercased label
\* contains one of the lowercased keywords (none for an empty list), each once, in
\* non-increasing frequency.
C13_SearchMatchesSorted ==
    op = "searchConcepts" =>
        LET v == answer.value
        IN  /\ ~answer.threw
            /\ {v[i] : i \in DOMAIN v} = {graph.attributes[k] : k \in Matching(query.keywords)}
            /\ Len(v) = Cardinality(Matching(query.keywords))
            /\ \A i, j \in DOMAIN v : i < j => v[i].frequency >= v[j].frequency
\* a search with an upper-case keyword whose matches the sort had to reorder
C13_Witness ==
    /\ op = "searchConcepts"
    /\ query.keywords = << <<"N", "E", "T">> >>
    /\ Len(answer.value) = 2
    /\ IndexOf(answer.value[1].id) > IndexOf(answer.value[2].id)

C15_SameRunSamePaths ==
    (Returned /\ DiverseCall /\ previous.ran /\ previous.call = call) =>
        {result[i] : i \in DOMAIN result} = {previous.result[i] : i \in DOMAIN previous.result}

(***************************************************************************)
(* Properties of findPaths without community data                          *)
(***************************************************************************)
NoCommunityData == communities = Undefined /\ op = "findPaths" /\ pc # "sampling"
GivenNodes ==
    HasNode(graph, call.sourceId) /\ (TargetedCall => HasNode(graph, call.targetId))
Neutral == Num(1, 2)
AllNeutral == \A i \in DOMAIN result : result[i].novelty = Neutral

BudgetBounded ==
    (op = "findPaths" /\ DiverseCall) =>
        /\ attempts <= AttemptFactor * call.maxResults
        /\ Len(paths) <= call.maxResults
        /\ \A i \in DOMAIN paths : Len(paths[i].nodes) - 1 <= call.maxLength - 1
        /\ ~RandomWalkThrows(graph, call.sourceId, call.maxLength) =>
              \A w \in RandomWalk(graph, communities, call.sourceId, call.maxLength) :
                  Len(w) - 1 <= call.maxLength - 1
\* the loop has ended on the attempt budget, with fewer walks than asked for
BudgetExhausted ==
    /\ op = "findPaths" /\ DiverseCall /\ pc # "sampling"
    /\ attempts = AttemptFactor * call.maxResults
    /\ Len(paths) < call.maxResults
\* the walks collected are the walks returned
PartialReturned ==
    /\ pc = "returned"
    /\ Len(result) < call.maxResults
    /\ {result[i].nodes : i \in DOMAIN result} = {paths[i].nodes : i \in DOMAIN paths}
\* C20: diverse sampling always terminates: it makes at most 10 x maxResults random
\* walks of at most maxLength - 1 steps each, and when the budget is exhausted it
\* returns the walks collected so far, fewer than maxResults, without an error.
C20_SamplingTerminates ==
    /\ [](BudgetBounded /\ (BudgetExhausted => PartialReturned))
    /\ (pc = "sampling") ~> (pc \in {"returned", "threw"})
\* the budget of 20 attempts used up with one walk collected
C20_Witness ==
    BudgetExhausted /\ PartialReturned /\ call.maxResults = 2 /\ Len(result) = 1

(***************************************************************************)
(* Properties of the workflows                                             *)
(***************************************************************************)
SequentialOrder == <<"ontologist", "scientist_1", "scientist_2", "critic">>
PerPathRoles == {"ontologist", "scientist_1", "scientist_2", "assistant", "critic"}
SequentialRun == workflow.mode = "sequential"
FlexibleRun == workflow.mode = "flexible"
Calls == SelectSeq(chatLog, LAMBDA e : e.kind = "call")
CalledRoles == [i \in DOMAIN Calls |-> Calls[i].role]
IsPrefix(s, t) == Len(s) <= Len(t) /\ SubSeq(t, 1, Len(s)) = s
\* event number i is a call of the role, event number i is a reply of the role
IsCall(i, role) == chatLog[i].kind = "call" /\ chatLog[i].role = role
IsReply(i, role) == chatLog[i].kind = "reply" /\ chatLog[i].role = role
RepliedBefore(i, role) ==
    \E j \in 1..(i - 1) : IsReply(j, role) /\ chatLog[j].path = chatLog[i].path
MissingSequentialAgent == \E k \in DOMAIN SequentialOrder : SequentialOrder[k] \notin agents

\* C17: runSequentialWorkflow calls ontologist, scientist_1, scientist_2, critic in
\* this order, each once and each only after the previous agent has replied; it
\* returns a hypothesis of status 'reviewed' only after the critic has replied; with
\* one of the four agents missing it throws and returns no hypothesis.
C17_SequentialOrder ==
    SequentialRun =>
        /\ IsPrefix(CalledRoles, SequentialOrder)
        /\ \A i \in DOMAIN chatLog : \A k \in 2..Len(SequentialOrder) :
              IsCall(i, SequentialOrder[k]) => RepliedBefore(i, SequentialOrder[k - 1])
        /\ workflow.at = "returned" =>
              /\ CalledRoles = SequentialOrder
              /\ \E j \in DOMAIN chatLog : IsReply(j, "critic")
              /\ Len(hypotheses) = 1 /\ hypotheses[1].status = "reviewed"
        /\ workflow.at # "returned" => hypotheses = <<>>
        /\ MissingSequentialAgent =>
              /\ workflow.at # "returned"
              /\ workflow.at = "threw" \/ workflow.pending # {}
\* a sequential run that returned its hypothesis after four calls and four replies
C17_Witness ==
    /\ SequentialRun /\ workflow.at = "returned"
    /\ Len(chatLog) = 8 /\ Len(hypotheses) = 1

\* the novelty checks of the run that concern path p
ChecksOf(p) == {workflow.checks[i] : i \in {k \in DOMAIN workflow.checks : workflow.checks[k].path = p}}
JudgedNovel(p) == \E c \in ChecksOf(p) : c.judgement = "yes"
ParsedNovel(p) == \E c \in ChecksOf(p) : c.isNovel
PlannerFirst ==
    \A i \in DOMAIN chatLog :
        (chatLog[i].kind = "call" /\ chatLog[i].role \in PerPathRoles) =>
            \E j \in 1..(i - 1) : IsCall(j, "planner")
AssistantAfterRefinement ==
    \A i \in DOMAIN chatLog : IsCall(i, "assistant") => RepliedBefore(i, "scientist_2")
\* the order of the flexible workflow, with "novel" read as the parsed isNovel flag
FlexibleOrderParsed ==
    FlexibleRun =>
        /\ PlannerFirst /\ AssistantAfterRefinement
        /\ \A i \in DOMAIN chatLog : IsCall(i, "critic") => ParsedNovel(chatLog[i].path)
        /\ \A k \in DOMAIN hypotheses : ParsedNovel(hypotheses[k].graphPath)

\* C18: runFlexibleWorkflow calls the planner before any per-path agent; for each
\* processed path the assistant is called after scientist_2 has replied, the critic
\* is called only if the assistant judged the hypothesis novel, and a hypothesis is
\* in the result only if its path was judged novel.
C18_FlexibleOrder ==
    FlexibleRun =>
        /\ PlannerFirst /\ AssistantAfterRefinement
        /\ \A i \in DOMAIN chatLog : IsCall(i, "critic") => JudgedNovel(chatLog[i].path)
        /\ \A k \in DOMAIN hypotheses : JudgedNovel(hypotheses[k].graphPath)

(***************************************************************************)
(* Properties of retrieval                                                 *)
(***************************************************************************)
SearchReturned == search.stage = "returned"
\* C19: with the MCP server available when the DataRetrieval is created, every
\* searchPubMed and searchAll call is served through MCP, and the direct APIs are
\* used only when an MCP call of the search failed; the call returns a list.
C19_ServedThroughMCP ==
    (mcpServer = "up" /\ SearchReturned) =>
        /\ "mcp" \in search.used
        /\ "direct" \in search.used => search.mcpFailed
        /\ search.returned \in {"papers", "empty list"}

(***************************************************************************)
(* Shape of the sampled paths                                              *)
(***************************************************************************)
NoRepeat(s) == \A i, j \in DOMAIN s : i # j => s[i] # s[j]
FollowsEdges(g, s) == \A i \in 1..(Len(s) - 1) : HasEdge(g, s[i], s[i + 1])
\* the walk could not go on: its last node has no out-neighbour outside the walk
DeadEnd(g, s) == OutNeighbors(g, s[Len(s)]) \ {s[i] : i \in DOMAIN s} = {}
\* C21: every path findPaths returns in diverse mode starts at the source, holds no
\* node twice, has between 2 and maxLength nodes, and every consecutive pair is a
\* directed edge of the graph; a walk shorter than maxLength nodes has stopped at a
\* node without unvisited out-neighbour.
C21_WalkShape ==
    (Returned /\ DiverseCall) =>
        \A i \in DOMAIN result :
            LET nodes == result[i].nodes
            IN  /\ nodes[1] = call.sourceId
                /\ NoRepeat(nodes)
                /\ Len(nodes) >= 2 /\ Len(nodes) <= call.maxLength
                /\ FollowsEdges(graph, nodes)
                /\ Len(nodes) < call.maxLength => DeadEnd(graph, nodes)
\* a returned walk that stopped early because the only way on led back into the walk
C21_Witness ==
    /\ Returned /\ DiverseCall
    /\ \E i \in DOMAIN result :
          /\ Len(result[i].nodes) < call.maxLength
          /\ OutNeighbors(graph, Last(result[i].nodes)) # {}


\* C22: findPaths in diverse mode never returns two paths with the same node-id
\* sequence and never more than maxResults paths, whatever the walks draw.
C22_DistinctAndCapped ==
    (Returned /\ DiverseCall) =>
        /\ Len(result) <= call.maxResults
        /\ \A i, j \in DOMAIN result : i # j => result[i].nodes # result[j].nodes
\* a call that returned maxResults paths after an attempt had drawn a walk a second time
C22_Witness ==
    /\ Returned /\ DiverseCall
    /\ Len(result) = call.maxResults /\ Len(result) >= 2
    /\ attempts > Cardinality(visitedPaths)

(***************************************************************************)
(* Properties of the classification                                        *)
(***************************************************************************)
\* the phrases identifyConcepts keeps for a text, in the order it classifies them
KeptPhrases(text) ==
    LET phrases == PhrasesFrom(MatchWords(ToLowerCase(text), 1), 1)
    IN  SelectSeq(DistinctInOrder(phrases),
                  LAMBDA ph : Occurrences(phrases, ph) >= MinFreq /\ Len(ph) > MinLabelLen)
HasWordOf(type, phrase) ==
    \E w \in Family(type) : \E s \in DOMAIN phrase : MatchAt(phrase, w, s)
\* the first of method, material, theory, phenomenon with a word in the phrase
TypeByPhrase(phrase) ==
    LET hits == {k \in DOMAIN TypeOrder : HasWordOf(TypeOrder[k], phrase)}
    IN  IF hits = {} THEN "concept"
        ELSE TypeOrder[CHOOSE k \in hits : \A j \in hits : k <= j]
\* C23: the type of an extracted phrase depends on the phrase alone: the first of
\* method, material, theory, phenomenon whose keyword family has a word in the
\* phrase, 'concept' if none has, whichever phrases were classified before it.
C23_TypeByPhraseAlone ==
    (op = "extractConcepts" /\ Len(extractInput) = 1) =>
        LET kept == KeptPhrases(PaperText(extractInput[1]))
        IN  /\ Len(concepts) = Len(kept)
            /\ \A i \in DOMAIN concepts : concepts[i].type = TypeByPhrase(kept[i])

(***************************************************************************)
(* Properties of the relationships                                         *)
(***************************************************************************)
SourceOf(e) == MapGet(relInput, e.source)
TargetOf(e) == MapGet(relInput, e.target)
\* C24: buildRelationships emits no edge for a co-occurring pair whose smaller
\* frequency is 0: the pair is skipped and no edge has an infinite or undefined
\* weight.
C24_ZeroFrequencySkipped ==
    op = "buildRelationships" =>
        \A i \in DOMAIN edges :
            /\ MinOf(SourceOf(edges[i]).frequency, TargetOf(edges[i]).frequency) # 0
            /\ IsFinite(edges[i].weight)

\* c / min(freq(A), freq(B)) and c / max(freq(A), freq(B)), c the number of distinct
\* paper ids the two papers lists have in common
SharedCount(a, b) == Int2Num(Cardinality(Shared(a, b)))
WeightByLists(a, b) == Divide(SharedCount(a, b), Int2Num(MinOf(a.frequency, b.frequency)))
ConfidenceByLists(a, b) == Divide(SharedCount(a, b), Int2Num(MaxOf(a.frequency, b.frequency)))
\* C25: every edge (A,B) emitted by buildRelationships has weight c / min(freq) and
\* confidence c / max(freq), c the number of distinct paper ids in both A.papers
\* and B.papers, and a pair gets an edge exactly when that weight is strictly
\* greater than 0.1.
C25_WeightByLists ==
    op = "buildRelationships" =>
        /\ \A i \in DOMAIN edges :
              /\ edges[i].weight = WeightByLists(SourceOf(edges[i]), TargetOf(edges[i]))
              /\ edges[i].confidence = ConfidenceByLists(SourceOf(edges[i]), TargetOf(edges[i]))
        /\ \A i, j \in DOMAIN relInput :
              i < j => (Joined(edges, relInput[i], relInput[j])
                        <=> Less(Threshold, WeightByLists(relInput[i], relInput[j])))

(***************************************************************************)
(* The novelty score                                                       *)
(***************************************************************************)
Clamp01(x) == IF Less(x, Zero) THEN Zero ELSE IF Less(One, x) THEN One ELSE x
AtMostOne(x) == IF Less(One, x) THEN One ELSE x
CrossingShare(p) ==
    Num(Cardinality({i \in 1..(Len(p.nodes) - 1) :
                       communities[p.nodes[i]] # communities[p.nodes[i + 1]]}),
        Len(p.edges))
MeanCentrality(p) ==
    Divide(SumNums([i \in DOMAIN p.nodes |-> centrality[p.nodes[i]]]), Int2Num(Len(p.nodes)))
WeightedScore(p) ==
    Plus(Plus(Times(Num(40, 100), CrossingShare(p)),
              Times(Num(30, 100),
                    Minus(One, AtMostOne(Divide(p.totalWeight, Int2Num(Len(p.edges))))))),
         Plus(Times(Num(20, 100), AtMostOne(Num(Len(p.nodes), 6))),
              Times(Num(10, 100),
                    Minus(One, AtMostOne(Times(Int2Num(10), MeanCentrality(p)))))))
AnalysisData == communities # Undefined /\ centrality # Undefined
\* C26: with community and centrality data, the novelty of a returned path with at
\* least one edge is, clamped to [0,1], 0.40 x (consecutive pairs in different
\* communities / edges) + 0.30 x (1 - min(totalWeight / edges, 1))
\* + 0.20 x min(nodes / 6, 1) + 0.10 x (1 - min(10 x mean centrality, 1)).
C26_NoveltyFormula ==
    (Returned /\ AnalysisData) =>
        \A i \in DOMAIN result :
            Len(result[i].edges) >= 1 => result[i].novelty = Clamp01(WeightedScore(result[i]))
\* a returned two-edge path that crosses a community border and passes a central node
C26_Witness ==
    /\ Returned /\ AnalysisData
    /\ \E i \in DOMAIN result :
          /\ Len(result[i].edges) = 2
          /\ Less(Zero, CrossingShare(result[i]))
          /\ Less(Zero, MeanCentrality(result[i]))

(***************************************************************************)
(* Direction of the relationships                                          *)
(***************************************************************************)
Built == op \in {"buildRelationships", "buildGraph", "buildGraph threw"}
\* the edge runs from a concept inserted earlier in the map to one inserted later
Forward(cm, u, v) == MapHas(cm, u) /\ MapHas(cm, v) /\ MapIndex(cm, u) < MapIndex(cm, v)
Ascending(cm, nodes) ==
    \A i \in 1..(Len(nodes) - 1) : Forward(cm, nodes[i], nodes[i + 1])
OnCycle(g, n) == \E v \in OutNeighbors(g, n) : n \in ReachableFrom(g, v)
\* C27: buildRelationships emits at most one edge per unordered pair of concepts,
\* directed from the concept inserted earlier in the concept map to the one
\* inserted later; the assembled graph has no pair of opposite edges and no
\* directed cycle, and every walk from a concept of the map moves from
\* earlier-inserted to later-inserted concepts.
C27_EarlierToLater ==
    Built =>
        /\ \A i \in DOMAIN edges : Forward(relInput, edges[i].source, edges[i].target)
        /\ \A i, j \in DOMAIN edges :
              i # j => {edges[i].source, edges[i].target} # {edges[j].source, edges[j].target}
        /\ \A e \in DOMAIN graph.weight : <<e[2], e[1]>> \notin DOMAIN graph.weight
        /\ \A n \in graph.nodes : ~OnCycle(graph, n)
        /\ op = "buildGraph" =>
              \A i \in DOMAIN relInput :
                  \A p \in SimplePaths(graph, <<relInput[i].id>>) : Ascending(relInput, p)
\* a graph assembled with a chain of two edges over three concepts
C27_Witness ==
    /\ op = "buildGraph" /\ Len(edges) >= 3
    /\ \E i \in DOMAIN relInput :
          \E p \in SimplePaths(graph, <<relInput[i].id>>) : Len(p) = 3

(***************************************************************************)
(* The papers lists of extracted concepts                                  *)
(***************************************************************************)
\* C28: in the map extractConcepts returns, no concept's papers list holds the same
\* paper id twice, for any list of papers.
C28_PapersDistinct ==
    op = "extractConcepts" => \A i \in DOMAIN concepts : NoRepeat(concepts[i].papers)

(***************************************************************************)
(* The history of an agent                                                 *)
(***************************************************************************)
Alternates(roles) ==
    \A i \in DOMAIN roles : roles[i] = IF i % 2 = 1 THEN "user" ELSE "assistant"
ConsecutiveUsers(roles) ==
    \E i \in 1..(Len(roles) - 1) : roles[i] = "user" /\ roles[i + 1] = "user"
\* C29: after any sequence of chat calls, succeeding or failing, and reset calls,
\* the first message of conversationHistory is the system prompt, the messages
\* after it alternate user, assistant, user, assistant, and the messages sent to
\* the API never hold two consecutive user messages.
C29_HistoryAlternates ==
    /\ conversationHistory[1] = "system"
    /\ Alternates(Tail(conversationHistory))
    /\ ~ConsecutiveUsers(sent)

(***************************************************************************)
(* Properties of generateMultipleHypotheses                                *)
(***************************************************************************)
\* the paths some agent was asked about in the current workflow
ProcessedPaths ==
    {chatLog[i].path : i \in {k \in DOMAIN chatLog : chatLog[k].path # NoPath}}
\* the paths of a list that fewer than three others exceed in novelty
ThreeHighest(graphPaths) ==
    {p \in SeqSet(graphPaths) :
       Cardinality({q \in SeqSet(graphPaths) : Less(PathNovelty(p), PathNovelty(q))}) < 3}
====
